---- MODULE Spec2Model ----
(***************************************************************************)
(* BrainOS backend (backend/app.py, backend/database.py): mesh            *)
(* normalization, propagation of the recorded transform to lesion         *)
(* (companion) volumes, the in-memory volume registry and the result      *)
(* cache.                                                                  *)
(*                                                                         *)
(* Numbers.  numpy floating point values are modelled as exact reals of   *)
(* the form (n/d)*sqrt(r), r squarefree, in canonical form, so that two   *)
(* values are equal exactly when their records are equal.  Rounding of    *)
(* IEEE arithmetic is not modelled.                                       *)
(***************************************************************************)
EXTENDS Integers, Sequences, FiniteSets, TLC

(***************************************************************************)
(* Exact arithmetic                                                        *)
(***************************************************************************)
Abs(x) == IF x < 0 THEN -x ELSE x

Sign(x) == IF x < 0 THEN -1 ELSE IF x = 0 THEN 0 ELSE 1

RECURSIVE Gcd(_, _)
Gcd(a, b) == IF b = 0 THEN a ELSE Gcd(b, a % b)

\* canonical form of (n/d)*sqrt(r), d > 0, r squarefree
Norm(n, d, r) ==
    IF n = 0 THEN [n |-> 0, d |-> 1, r |-> 1]
    ELSE [n |-> n \div Gcd(Abs(n), d), d |-> d \div Gcd(Abs(n), d), r |-> r]

Rat(p, q) == Norm(p, q, 1)

I(k) == [n |-> k, d |-> 1, r |-> 1]

RZero == [n |-> 0, d |-> 1, r |-> 1]

RNeg(a) == [a EXCEPT !.n = -a.n]

\* sqrt(r1)*sqrt(r2) = g*sqrt((r1/g)*(r2/g)) with g = gcd(r1, r2)
RMul(a, b) ==
    Norm(a.n * b.n * Gcd(a.r, b.r), a.d * b.d,
         (a.r \div Gcd(a.r, b.r)) * (b.r \div Gcd(a.r, b.r)))

\* 1/a for a # 0
RInv(a) == Norm(Sign(a.n) * a.d, Abs(a.n) * a.r, a.r)

RDiv(a, b) == RMul(a, RInv(b))

\* a + b; two non-zero operands must share their radicand
RAdd(a, b) ==
    IF a.n = 0 THEN b
    ELSE IF b.n = 0 THEN a
    ELSE IF a.r = b.r THEN Norm(a.n * b.d + b.n * a.d, a.d * b.d, a.r)
    ELSE [not_representable |-> TRUE]

RSub(a, b) == RAdd(a, RNeg(b))

\* a < b: by cross multiplication when the radicands agree, else by the
\* signs and the (rational) squares
RLess(a, b) ==
    IF a.r = b.r THEN a.n * b.d < b.n * a.d
    ELSE IF Sign(a.n) # Sign(b.n) THEN Sign(a.n) < Sign(b.n)
    ELSE IF Sign(a.n) > 0
         THEN a.n * a.n * a.r * b.d * b.d < b.n * b.n * b.r * a.d * a.d
         ELSE b.n * b.n * b.r * a.d * a.d < a.n * a.n * a.r * b.d * b.d

RECURSIVE SquarePart(_, _)
\* the largest k with k*k dividing m (call with k = 2)
SquarePart(m, k) ==
    IF k * k > m THEN 1
    ELSE IF m % (k * k) = 0 THEN k * SquarePart(m \div (k * k), k)
    ELSE SquarePart(m, k + 1)

\* sqrt(n/d) = sqrt(n*d)/d = k*sqrt(n*d/k^2)/d
SqrtOf(m, d, k) == Norm(k, d, m \div (k * k))

\* square root of a non-negative rational
RSqrt(a) == IF a.n = 0 THEN RZero ELSE SqrtOf(a.n * a.d, a.d, SquarePart(a.n * a.d, 2))

RECURSIVE RSum(_)
RSum(s) == IF Len(s) = 0 THEN RZero ELSE RAdd(s[1], RSum(Tail(s)))

Smaller(a, b) == IF RLess(b, a) THEN b ELSE a

RECURSIVE RMinSeq(_)
RMinSeq(s) == IF Len(s) = 1 THEN s[1] ELSE Smaller(s[1], RMinSeq(Tail(s)))

Larger(a, b) == IF RLess(a, b) THEN b ELSE a

RECURSIVE RMaxSeq(_)
RMaxSeq(s) == IF Len(s) = 1 THEN s[1] ELSE Larger(s[1], RMaxSeq(Tail(s)))

(***************************************************************************)
(* numpy operations on (N,3) arrays and on 3-vectors                       *)
(***************************************************************************)
RECURSIVE AsTuple(_, _)
AsTuple(f, n) == IF n = 0 THEN <<>> ELSE Append(AsTuple(f, n - 1), f[n])

\* an array given by its entries, as the tuple of the computed entries
Eager(f) == AsTuple(f, Cardinality(DOMAIN f))

Axes == 1..3

Vec(a, b, c) == <<I(a), I(b), I(c)>>

VZero == <<RZero, RZero, RZero>>

ToVec(t) == Eager([i \in Axes |-> I(t[i])])

VAdd(u, v) == Eager([i \in Axes |-> RAdd(u[i], v[i])])

VSub(u, v) == Eager([i \in Axes |-> RSub(u[i], v[i])])

VMul(u, v) == Eager([i \in Axes |-> RMul(u[i], v[i])])

VScale(u, c) == Eager([i \in Axes |-> RMul(u[i], c)])

VDivS(u, c) == Eager([i \in Axes |-> RDiv(u[i], c)])

Column(vs, i) == Eager([k \in 1..Len(vs) |-> vs[k][i]])

\* np.mean(vs, axis=0)
np_mean(vs) == Eager([i \in Axes |-> RDiv(RSum(Column(vs, i)), I(Len(vs)))])

\* np.min(vs, axis=0)
np_min(vs) == Eager([i \in Axes |-> RMinSeq(Column(vs, i))])

\* np.max(vs, axis=0)
np_max(vs) == Eager([i \in Axes |-> RMaxSeq(Column(vs, i))])

\* np.linalg.norm of one row
np_norm(v) == RSqrt(RSum(Eager([i \in Axes |-> RMul(v[i], v[i])])))

\* np.linalg.norm(vs, axis=1)
np_norms(vs) == Eager([k \in 1..Len(vs) |-> np_norm(vs[k])])

\* vs - c, broadcast over the rows
RowsSub(vs, c) == Eager([k \in 1..Len(vs) |-> VSub(vs[k], c)])

\* vs + c, broadcast over the rows
RowsAdd(vs, c) == Eager([k \in 1..Len(vs) |-> VAdd(vs[k], c)])

\* vs * c for a 3-vector c, broadcast over the rows
RowsMul(vs, c) == Eager([k \in 1..Len(vs) |-> VMul(vs[k], c)])

(***************************************************************************)
(* MeshNormalizationMethods                                                *)
(***************************************************************************)
None == [none |-> TRUE]

IsNone(x) == "none" \in DOMAIN x

\* scale_factor of a cartesian record: a float (one entry) or a list (three)
Scalar(x) == [kind |-> "scalar", v |-> <<x>>]

Vector(x) == [kind |-> "vector", v |-> x]

\* a scale as it multiplies an (N,3) array: a float applies to every axis
Broadcast(scale) ==
    Eager([i \in Axes |-> IF scale.kind = "scalar" THEN scale.v[1] ELSE scale.v[i]])

\* variant: the final centroid is recorded as the origin whatever center_at_origin is
cartesian_result_origin(scaled_vertices, centroid, current_size, scale, target_size, center_at_origin, preserve_aspect_ratio) ==
    [vertices |-> scaled_vertices,
     transform_info |->
       [original_centroid |-> centroid,
        original_size |-> current_size,
        scale_factor |-> scale,
        final_centroid |-> VZero,
        final_size |-> VSub(np_max(scaled_vertices), np_min(scaled_vertices)),
        target_size |-> target_size,
        centered_at_origin |-> center_at_origin,
        aspect_ratio_preserved |-> preserve_aspect_ratio]]

\* cartesian_normalization: the statistics and the returned pair
cartesian_result(scaled_vertices, centroid, current_size, scale, target_size, center_at_origin, preserve_aspect_ratio) ==
    [vertices |-> scaled_vertices,
     transform_info |->
       [original_centroid |-> centroid,
        original_size |-> current_size,
        scale_factor |-> scale,
        final_centroid |-> np_mean(scaled_vertices),
        final_size |-> VSub(np_max(scaled_vertices), np_min(scaled_vertices)),
        target_size |-> target_size,
        centered_at_origin |-> center_at_origin,
        aspect_ratio_preserved |-> preserve_aspect_ratio]]

\* variant: the uniform scale is taken from the first axis
cartesian_scale_first_axis(current_size, max_dimension, target_size, preserve_aspect_ratio) ==
    IF preserve_aspect_ratio
    THEN Scalar(IF RLess(RZero, current_size[1])
                THEN RDiv(I(target_size), current_size[1]) ELSE I(1))
    ELSE Vector(Eager([i \in Axes |-> IF current_size[i] = RZero THEN I(1)
                                ELSE RDiv(I(target_size), current_size[i])]))

\* variant: a degenerate axis is scaled by target_size
cartesian_scale_degenerate_target(current_size, max_dimension, target_size, preserve_aspect_ratio) ==
    IF preserve_aspect_ratio
    THEN Scalar(IF RLess(RZero, max_dimension)
                THEN RDiv(I(target_size), max_dimension) ELSE I(1))
    ELSE Vector(Eager([i \in Axes |-> IF current_size[i] = RZero THEN I(target_size)
                                ELSE RDiv(I(target_size), current_size[i])]))

\* cartesian_normalization: scale_factor (uniform) or scale_factors (per axis)
cartesian_scale(current_size, max_dimension, target_size, preserve_aspect_ratio) ==
    IF preserve_aspect_ratio
    THEN Scalar(IF RLess(RZero, max_dimension)
                THEN RDiv(I(target_size), max_dimension) ELSE I(1))
    ELSE Vector(Eager([i \in Axes |-> IF current_size[i] = RZero THEN I(1)
                                ELSE RDiv(I(target_size), current_size[i])]))

\* cartesian_normalization: scaling of the centered vertices and the move
\* back to the scaled centroid
cartesian_scaled(centered_vertices, centroid, scale, center_at_origin) ==
    IF center_at_origin THEN RowsMul(centered_vertices, Broadcast(scale))
    ELSE RowsAdd(RowsMul(centered_vertices, Broadcast(scale)),
                 VMul(centroid, Broadcast(scale)))

cartesian_with_scale(vertices, centroid, current_size, scale, target_size, center_at_origin, preserve_aspect_ratio) ==
    cartesian_result(
        cartesian_scaled(RowsSub(vertices, centroid), centroid, scale, center_at_origin),
        centroid, current_size, scale, target_size, center_at_origin,
        preserve_aspect_ratio)

cartesian_with_box(vertices, centroid, current_size, target_size, center_at_origin, preserve_aspect_ratio) ==
    cartesian_with_scale(vertices, centroid, current_size,
        cartesian_scale(current_size, RMaxSeq(current_size), target_size,
                        preserve_aspect_ratio),
        target_size, center_at_origin, preserve_aspect_ratio)

cartesian_normalization(vertices, target_size, center_at_origin, preserve_aspect_ratio) ==
    cartesian_with_box(vertices, np_mean(vertices),
                       VSub(np_max(vertices), np_min(vertices)),
                       target_size, center_at_origin, preserve_aspect_ratio)

\* spherical_normalization: the statistics and the returned pair; the
\* statistics original_avg_distance and final_avg_distance (sums of square
\* roots of different radicands) are left out
spherical_result(scaled_vertices, center, max_distance, target_radius, center_mode, normalize_to_unit_sphere) ==
    [vertices |-> scaled_vertices,
     transform_info |->
       [original_center |-> center,
        original_max_distance |-> max_distance,
        scale_factor |-> IF RLess(RZero, max_distance)
                         THEN RDiv(I(target_radius), max_distance) ELSE I(1),
        final_center |-> VZero,
        final_max_distance |-> RMaxSeq(np_norms(scaled_vertices)),
        target_radius |-> target_radius,
        center_mode |-> center_mode,
        normalized_to_unit_sphere |-> normalize_to_unit_sphere]]

\* variant: the centered vertices are scaled by target_radius alone
spherical_scaled_by_radius(centered_vertices, max_distance, target_radius, normalize_to_unit_sphere) ==
    Eager([k \in 1..Len(centered_vertices) |-> VScale(centered_vertices[k], I(target_radius))])

\* spherical_normalization: the two scaling paths and the single-point guard
spherical_scaled(centered_vertices, max_distance, target_radius, normalize_to_unit_sphere) ==
    IF normalize_to_unit_sphere /\ RLess(RZero, max_distance)
    THEN Eager([k \in 1..Len(centered_vertices) |->
            VScale(VDivS(centered_vertices[k], max_distance), I(target_radius))])
    ELSE IF RLess(RZero, max_distance)
         THEN Eager([k \in 1..Len(centered_vertices) |->
                 VScale(centered_vertices[k], RDiv(I(target_radius), max_distance))])
         ELSE centered_vertices

spherical_with_distance(centered_vertices, center, max_distance, target_radius, center_mode, normalize_to_unit_sphere) ==
    spherical_result(
        spherical_scaled(centered_vertices, max_distance, target_radius,
                         normalize_to_unit_sphere),
        center, max_distance, target_radius, center_mode, normalize_to_unit_sphere)

spherical_with_center(centered_vertices, center, target_radius, center_mode, normalize_to_unit_sphere) ==
    spherical_with_distance(centered_vertices, center,
                            RMaxSeq(np_norms(centered_vertices)),
                            target_radius, center_mode, normalize_to_unit_sphere)

\* variant: mass_center is the middle of the bounding box
spherical_center_mass_as_box(vertices, center_mode) ==
    IF center_mode \in {"geometric_center", "mass_center"}
    THEN VDivS(VAdd(np_min(vertices), np_max(vertices)), I(2))
    ELSE np_mean(vertices)

\* the center for each center_mode; an unknown mode falls back to the mean
spherical_center(vertices, center_mode) ==
    IF center_mode = "geometric_center"
    THEN VDivS(VAdd(np_min(vertices), np_max(vertices)), I(2))
    ELSE np_mean(vertices)

spherical_centered(vertices, center, target_radius, center_mode, normalize_to_unit_sphere) ==
    spherical_with_center(RowsSub(vertices, center), center, target_radius, center_mode,
                          normalize_to_unit_sphere)

spherical_normalization(vertices, target_radius, center_mode, normalize_to_unit_sphere) ==
    spherical_centered(vertices, spherical_center(vertices, center_mode),
                       target_radius, center_mode, normalize_to_unit_sphere)

(***************************************************************************)
(* Replay of a recorded transform on a set of coordinates                  *)
(***************************************************************************)
\* variant: the coordinates are centred on their own centroid
apply_cartesian_transform_own_centroid(coordinates, transform_info) ==
    RowsAdd(RowsMul(RowsSub(coordinates, np_mean(coordinates)),
                    Broadcast(transform_info.scale_factor)),
            transform_info.final_centroid)

\* centre on original_centroid, scale (uniform or per axis), add final_centroid
apply_cartesian_transform_to_coordinates(coordinates, transform_info) ==
    RowsAdd(RowsMul(RowsSub(coordinates, transform_info.original_centroid),
                    Broadcast(transform_info.scale_factor)),
            transform_info.final_centroid)

\* centre on original_center, scale uniformly, add final_center
apply_spherical_transform_to_coordinates(coordinates, transform_info) ==
    RowsAdd(Eager([k \in 1..Len(coordinates) |->
                VScale(VSub(coordinates[k], transform_info.original_center),
                       transform_info.scale_factor)]),
            transform_info.final_center)

(***************************************************************************)
(* Volumes: data is [shape, vals], vals indexed by zero-based <<i,j,k>>    *)
(***************************************************************************)
Indices(shape) == (0..(shape[1] - 1)) \X (0..(shape[2] - 1)) \X (0..(shape[3] - 1))

LexLess(a, b) ==
    \/ a[1] < b[1]
    \/ a[1] = b[1] /\ a[2] < b[2]
    \/ a[1] = b[1] /\ a[2] = b[2] /\ a[3] < b[3]

LexMin(S) == CHOOSE x \in S : \A y \in S : y = x \/ LexLess(x, y)

RECURSIVE SortLex(_)
SortLex(S) == IF S = {} THEN <<>> ELSE <<LexMin(S)>> \o SortLex(S \ {LexMin(S)})

\* np.argwhere(data > 0): indices in C order
\* variant: np.argwhere(data != 0)
argwhere_nonzero(data) == SortLex({x \in Indices(data.shape) : data.vals[x] # 0})

argwhere_positive(data) == SortLex({x \in Indices(data.shape) : data.vals[x] > 0})

get_zooms(nii_img) == nii_img.zooms

\* indices * zooms: voxel indices to physical coordinates in mm
indices_to_mm(indices, zooms) ==
    Eager([k \in 1..Len(indices) |-> VMul(ToVec(indices[k]), ToVec(zooms))])

\* transform_lesion_coordinates: the result dictionary
lesion_transform_result(lesion_indices, lesion_coords_mm, transformed_coords, lesion_zooms, transform_info, method, brain_zooms) ==
    [coordinates |-> transformed_coords,
     original_coordinates |-> lesion_coords_mm,
     lesion_count |-> Len(lesion_indices),
     voxel_indices |-> lesion_indices,
     transform_method |-> method,
     lesion_zooms |-> lesion_zooms,
     brain_zooms |-> brain_zooms,
     transform_info |-> transform_info,
     coordinate_statistics |->
       [original_centroid |-> np_mean(lesion_coords_mm),
        transformed_centroid |-> np_mean(transformed_coords),
        original_bounds |-> [min |-> np_min(lesion_coords_mm),
                             max |-> np_max(lesion_coords_mm)],
        transformed_bounds |-> [min |-> np_min(transformed_coords),
                                max |-> np_max(transformed_coords)]]]

\* transform_lesion_coordinates: replay by method
lesion_with_coords(lesion_indices, lesion_coords_mm, lesion_zooms, transform_info, method, brain_zooms) ==
    lesion_transform_result(lesion_indices, lesion_coords_mm,
        IF method = "cartesian"
        THEN apply_cartesian_transform_to_coordinates(lesion_coords_mm, transform_info)
        ELSE apply_spherical_transform_to_coordinates(lesion_coords_mm, transform_info),
        lesion_zooms, transform_info, method, brain_zooms)

\* variant: voxel indices are scaled by the brain's spacing
lesion_with_indices_brain_spacing(lesion_indices, lesion_zooms, transform_info, method, brain_zooms) ==
    IF Len(lesion_indices) = 0 THEN None
    ELSE IF method \notin {"cartesian", "spherical"} THEN None
    ELSE lesion_with_coords(lesion_indices, indices_to_mm(lesion_indices, brain_zooms),
                            lesion_zooms, transform_info, method, brain_zooms)

\* transform_lesion_coordinates: no significant voxel or an unknown method
\* gives None; physical coordinates use the lesion's own spacing
lesion_with_indices(lesion_indices, lesion_zooms, transform_info, method, brain_zooms) ==
    IF Len(lesion_indices) = 0 THEN None
    ELSE IF method \notin {"cartesian", "spherical"} THEN None
    ELSE lesion_with_coords(lesion_indices, indices_to_mm(lesion_indices, lesion_zooms),
                            lesion_zooms, transform_info, method, brain_zooms)

transform_lesion_coordinates(lesion_file_data, transform_info, method, brain_zooms) ==
    lesion_with_indices(argwhere_positive(lesion_file_data.data),
                        get_zooms(lesion_file_data.nii_img),
                        transform_info, method, brain_zooms)

(***************************************************************************)
(* Surface extraction.  scipy's gaussian_filter and skimage's              *)
(* marching_cubes are library code: each is represented by a deterministic *)
(* function of the same arguments.                                         *)
(***************************************************************************)
\* voxels_above_threshold < 100
MinVoxelsAboveThreshold == 100

\* data.astype(float)
astype_float(data) == [shape |-> data.shape, vals |-> [x \in Indices(data.shape) |-> I(data.vals[x])]]

\* boundary mode 'reflect': the edge sample is repeated
Reflect(i, n) == IF i < 0 THEN 0 ELSE IF i > n - 1 THEN n - 1 ELSE i

Shift(x, k, shape) == <<Reflect(x[1] + k, shape[1]), x[2], x[3]>>

\* gaussian_filter(data.astype(float), sigma): a normalised local average
\* (weights 1/4, 1/2, 1/4 along the first axis) with reflecting boundary
gaussian_filter(data, sigma) ==
    [shape |-> data.shape,
     vals |-> [x \in Indices(data.shape) |->
                 Rat(data.vals[Shift(x, -1, data.shape)] + 2 * data.vals[x]
                       + data.vals[Shift(x, 1, data.shape)], 4)]]

Values(volume) == {volume.vals[x] : x \in Indices(volume.shape)}

\* np.max and np.min of a set of scalars
MaxOf(S) == CHOOSE m \in S : \A y \in S : ~RLess(m, y)

MinOf(S) == CHOOSE m \in S : \A y \in S : ~RLess(y, m)

IntMin(S) == CHOOSE m \in S : \A y \in S : m <= y

IntMax(S) == CHOOSE m \in S : \A y \in S : m >= y

\* the corners of a box, x fastest
BoxCorners(lo, hi) ==
    << Vec(lo[1], lo[2], lo[3]), Vec(hi[1], lo[2], lo[3]), Vec(lo[1], hi[2], lo[3]),
       Vec(hi[1], hi[2], lo[3]), Vec(lo[1], lo[2], hi[3]), Vec(hi[1], lo[2], hi[3]),
       Vec(lo[1], hi[2], hi[3]), Vec(hi[1], hi[2], hi[3]) >>

\* twelve triangles on the eight corners (zero-based vertex indices)
BoxFaces ==
    << <<0, 1, 3>>, <<0, 3, 2>>, <<4, 7, 5>>, <<4, 6, 7>>, <<0, 5, 1>>, <<0, 4, 5>>,
       <<2, 3, 7>>, <<2, 7, 6>>, <<0, 2, 6>>, <<0, 6, 4>>, <<1, 5, 7>>, <<1, 7, 3>> >>

\* measure.marching_cubes(volume, level, spacing=(1,1,1)): a closed surface
\* around the voxels above the level, in voxel-index units; here the box
\* that bounds them
marching_cubes(above) ==
    [vertices |-> BoxCorners(Eager([i \in Axes |-> IntMin({x[i] : x \in above})]),
                             Eager([i \in Axes |-> IntMax({x[i] : x \in above})])),
     faces |-> BoxFaces]

\* generate_mesh_from_data: the returned triple; (None, None, {}) is None here
mesh_result(mesh, above, actual_threshold, data_min, data_max, smoothing) ==
    [vertices |-> mesh.vertices,
     faces |-> mesh.faces,
     mesh_stats |-> [vertex_count |-> Len(mesh.vertices),
                     face_count |-> Len(mesh.faces),
                     threshold_used |-> actual_threshold,
                     data_range |-> <<data_min, data_max>>,
                     voxels_above_threshold |-> Cardinality(above),
                     smoothing_sigma |-> smoothing]]

\* what a call of generate_mesh_from_data leaves behind: the value it
\* returns and the line it prints last
Outcome(returned, printed) == [returned |-> returned, printed |-> printed]

NoVariation == "Warning: Data has no variation"

TooFewVoxels == "Warning: Too few voxels above threshold"

ErrorGeneratingMesh == "Error generating mesh"

GeneratedMesh == "Generated mesh"

\* measure.marching_cubes raises ValueError on a volume thinner than two
\* samples along an axis
marching_cubes_raises(shape) == \E i \in Axes : shape[i] < 2

mesh_with_above(above, shape, actual_threshold, data_min, data_max, smoothing) ==
    IF Cardinality(above) < MinVoxelsAboveThreshold THEN Outcome(None, TooFewVoxels)
    ELSE IF marching_cubes_raises(shape) THEN Outcome(None, ErrorGeneratingMesh)
    ELSE Outcome(mesh_result(marching_cubes(above), above, actual_threshold, data_min, data_max,
                             smoothing),
                 GeneratedMesh)

\* variant: the voxels at the threshold are counted as above it
mesh_with_threshold_inclusive(smoothed_data, actual_threshold, data_min, data_max, smoothing) ==
    mesh_with_above({x \in Indices(smoothed_data.shape) : ~RLess(smoothed_data.vals[x], actual_threshold)},
                    smoothed_data.shape, actual_threshold, data_min, data_max, smoothing)

mesh_with_threshold(smoothed_data, actual_threshold, data_min, data_max, smoothing) ==
    mesh_with_above({x \in Indices(smoothed_data.shape) : RLess(actual_threshold, smoothed_data.vals[x])},
                    smoothed_data.shape, actual_threshold, data_min, data_max, smoothing)

\* variant: the flat-volume test is left out
mesh_with_range_unchecked(smoothed_data, data_min, data_max, threshold_level, smoothing) ==
    mesh_with_threshold(smoothed_data,
                        RAdd(data_min, RMul(RSub(data_max, data_min), threshold_level)),
                        data_min, data_max, smoothing)

mesh_with_range(smoothed_data, data_min, data_max, threshold_level, smoothing) ==
    IF data_max = data_min THEN Outcome(None, NoVariation)
    ELSE mesh_with_threshold(smoothed_data,
                             RAdd(data_min, RMul(RSub(data_max, data_min), threshold_level)),
                             data_min, data_max, smoothing)

mesh_with_values(smoothed_data, values, threshold_level, smoothing) ==
    mesh_with_range(smoothed_data, MinOf(values), MaxOf(values), threshold_level, smoothing)

mesh_from_smoothed(smoothed_data, threshold_level, smoothing) ==
    mesh_with_values(smoothed_data, Values(smoothed_data), threshold_level, smoothing)

\* the volume the threshold is taken on: smoothing > 0 filters
smoothed_data_of(data, smoothing) ==
    IF RLess(RZero, smoothing) THEN gaussian_filter(data, smoothing) ELSE astype_float(data)

\* smoothing and threshold_level are scalars (Rat)
mesh_from_data(data, threshold_level, smoothing) ==
    mesh_from_smoothed(smoothed_data_of(data, smoothing), threshold_level, smoothing)

\* a 5 x 5 x 5 scan whose first sagittal plane is background
BrainData ==
    [shape |-> <<5, 5, 5>>,
     vals |-> [x \in Indices(<<5, 5, 5>>) |-> IF x[1] = 0 THEN 0 ELSE 1]]

\* a volume with one value everywhere
FlatData(shape, value) == [shape |-> shape, vals |-> [x \in Indices(shape) |-> value]]

\* 4 x 4 x 4, zero except one voxel of value 10
OneVoxelData ==
    [shape |-> <<4, 4, 4>>,
     vals |-> [x \in Indices(<<4, 4, 4>>) |-> IF x = <<1, 1, 1>> THEN 10 ELSE 0]]

\* the scan with one more background voxel: 99 voxels of value 1
SparseData ==
    [shape |-> <<5, 5, 5>>,
     vals |-> [x \in Indices(<<5, 5, 5>>) |-> IF x[1] = 0 \/ x = <<1, 0, 0>> THEN 0 ELSE 1]]

\* three levels: one voxel 0, 25 voxels 1, 99 voxels 2
SteppedData ==
    [shape |-> <<5, 5, 5>>,
     vals |-> [x \in Indices(<<5, 5, 5>>) |->
                 IF x = <<0, 0, 0>> THEN 0
                 ELSE IF x[1] = 0 \/ x = <<1, 0, 0>> THEN 1 ELSE 2]]

\* a single sagittal plane: 10 voxels 0 and 100 voxels 1
ThinData ==
    [shape |-> <<1, 10, 11>>,
     vals |-> [x \in Indices(<<1, 10, 11>>) |-> IF x[3] = 0 THEN 0 ELSE 1]]

ExtractDataSeq ==
    <<BrainData, FlatData(<<4, 4, 4>>, 0), FlatData(<<5, 5, 5>>, 7), OneVoxelData, SparseData,
      SteppedData, ThinData>>

ThresholdLevelSeq == <<Rat(1, 10), I(0), Rat(1, 2), I(1)>>

SmoothingSeq == <<I(1), I(0)>>

\* entry i of the table: one volume under one threshold_level and smoothing
mesh_entry(data, threshold_level, smoothing) ==
    [data |-> data, threshold_level |-> threshold_level, smoothing |-> smoothing,
     mesh |-> mesh_from_data(data, threshold_level, smoothing)]

\* the extractions that requests of the model ask for, computed once
MeshTable ==
    Eager([i \in 1..(Len(ExtractDataSeq) * Len(ThresholdLevelSeq) * Len(SmoothingSeq)) |->
             mesh_entry(ExtractDataSeq[((i - 1) \div (Len(ThresholdLevelSeq) * Len(SmoothingSeq))) + 1],
                        ThresholdLevelSeq[(((i - 1) \div Len(SmoothingSeq)) % Len(ThresholdLevelSeq)) + 1],
                        SmoothingSeq[((i - 1) % Len(SmoothingSeq)) + 1])])

\* the samples of an array that are looked at first when two are compared
Probes == {<<0, 0, 0>>, <<0, 1, 1>>}

SameData(a, b) ==
    /\ a.shape = b.shape
    /\ \A x \in Probes : a.vals[x] = b.vals[x]
    /\ a = b

Tabulated(data, threshold_level, smoothing) ==
    {i \in DOMAIN MeshTable : /\ MeshTable[i].threshold_level = threshold_level
                              /\ MeshTable[i].smoothing = smoothing
                              /\ SameData(MeshTable[i].data, data)}

mesh_lookup(entries, data, threshold_level, smoothing) ==
    IF entries = {} THEN mesh_from_data(data, threshold_level, smoothing)
    ELSE MeshTable[CHOOSE i \in entries : TRUE].mesh

\* the triple the call returns and the line it prints last
generate_mesh_outcome(data, threshold_level, smoothing) ==
    mesh_lookup(Tabulated(data, threshold_level, smoothing), data, threshold_level, smoothing)

\* the triple the call returns
generate_mesh_from_data(data, threshold_level, smoothing) ==
    generate_mesh_outcome(data, threshold_level, smoothing).returned

\* vertices * np.array(zooms)
scale_by_zooms(vertices, zooms) == RowsMul(vertices, ToVec(zooms))

mesh_data_record(centered_vertices, faces, centroid, zooms) ==
    [vertices |-> centered_vertices,
     faces |-> faces,
     centroid |-> centroid,
     voxel_spacing |-> zooms,
     bounds |-> [min |-> np_min(centered_vertices), max |-> np_max(centered_vertices)]]

mesh_centered(scaled_vertices, centroid, faces, zooms) ==
    mesh_data_record(RowsSub(scaled_vertices, centroid), faces, centroid, zooms)

mesh_scaled(scaled_vertices, faces, zooms) ==
    mesh_centered(scaled_vertices, np_mean(scaled_vertices), faces, zooms)

\* scale by the voxel spacing, centre on the centroid, report the bounds
prepare_mesh_for_frontend(vertices, faces, nii_img) ==
    mesh_scaled(scale_by_zooms(vertices, get_zooms(nii_img)), faces, get_zooms(nii_img))

(***************************************************************************)
(* normalize_mesh: dispatch on the method name with params.get defaults    *)
(***************************************************************************)
Get(d, key, default) == IF key \in DOMAIN d THEN d[key] ELSE default

EmptyDict == [k \in {} |-> 0]

normalize_dispatch(scaled_vertices, method, params) ==
    IF method = "cartesian"
    THEN cartesian_normalization(scaled_vertices,
                                 Get(params, "target_size", 100),
                                 Get(params, "center_at_origin", TRUE),
                                 Get(params, "preserve_aspect_ratio", TRUE))
    ELSE IF method = "spherical"
    THEN spherical_normalization(scaled_vertices,
                                 Get(params, "target_radius", 50),
                                 Get(params, "center_mode", "centroid"),
                                 Get(params, "normalize_to_unit_sphere", TRUE))
    ELSE None

(***************************************************************************)
(* The recorded transform, read as reference center, scale and destination *)
(***************************************************************************)
reference_center(method, info) ==
    IF method = "cartesian" THEN info.original_centroid ELSE info.original_center

destination_center(method, info) ==
    IF method = "cartesian" THEN info.final_centroid ELSE info.final_center

\* the scale as a 3-vector (a scalar scale is the same on every axis)
scale_vector(method, info) ==
    IF method = "cartesian"
    THEN IF info.scale_factor.kind = "scalar"
         THEN Eager([i \in Axes |-> info.scale_factor.v[1]])
         ELSE info.scale_factor.v
    ELSE Eager([i \in Axes |-> info.scale_factor])

Replay(p, method, info) ==
    VAdd(VMul(VSub(p, reference_center(method, info)), scale_vector(method, info)),
         destination_center(method, info))

(***************************************************************************)
(* Bounds and input sets of the pure-function specification                *)
(***************************************************************************)
MaxVerts == 2

MaxX == 2

MaxY == 1

MaxZ == 1

LesionDim == 3

Points == {Vec(x[1], x[2], x[3]) : x \in (0..MaxX) \X (0..MaxY) \X (0..MaxZ)}

\* the eight corners of a 50 x 20 x 10 mm box: extent (50,20,10), centroid (25,10,5)
ExampleVertices ==
    << Vec(0, 0, 0), Vec(50, 0, 0), Vec(0, 20, 0), Vec(50, 20, 0),
       Vec(0, 0, 10), Vec(50, 0, 10), Vec(0, 20, 10), Vec(50, 20, 10) >>

\* vertex lists whose centroid is not the middle of the bounding box
SkewVertices ==
    {<<Vec(0, 0, 0), Vec(2, 0, 0), Vec(2, 4, 0)>>,
     <<Vec(0, 0, 0), Vec(4, 0, 0), Vec(0, 3, 0), Vec(0, 0, 1)>>}

VertexLists ==
    UNION {[1..n -> Points] : n \in 1..MaxVerts} \cup {ExampleVertices} \cup SkewVertices

Methods == {"cartesian", "spherical"}

CartesianParams ==
    [target_size : {100, 7}, center_at_origin : BOOLEAN, preserve_aspect_ratio : BOOLEAN]

SphericalParams ==
    [target_radius : {50},
     center_mode : {"centroid", "geometric_center", "mass_center", "other"},
     normalize_to_unit_sphere : BOOLEAN]

ParamsOf(method) ==
    IF method = "cartesian" THEN CartesianParams \cup {EmptyDict}
    ELSE SphericalParams \cup {EmptyDict}

ZoomChoices == {<<1, 1, 1>>, <<2, 1, 3>>}

LesionShape == <<LesionDim, 1, 1>>

\* the spec's example: one significant voxel at index (2,3,4)
ExampleLesionData ==
    [shape |-> <<3, 4, 5>>,
     vals |-> [x \in Indices(<<3, 4, 5>>) |-> IF x = <<2, 3, 4>> THEN 1 ELSE 0]]

\* a mask with a negative voxel next to a positive one
SignedLesionData ==
    [shape |-> <<2, 1, 1>>,
     vals |-> [x \in Indices(<<2, 1, 1>>) |-> IF x = <<0, 0, 0>> THEN -1 ELSE 3]]

LesionDatas ==
    {[shape |-> LesionShape, vals |-> f] : f \in [Indices(LesionShape) -> {0, 1}]}
    \cup {ExampleLesionData, SignedLesionData}

LesionFiles ==
    {[data |-> d, nii_img |-> [zooms |-> z]] : d \in LesionDatas, z \in ZoomChoices}

\* second companions, compared with the first one
PairedLesionFiles ==
    {[data |-> ExampleLesionData, nii_img |-> [zooms |-> <<1, 1, 1>>]],
     [data |-> [shape |-> LesionShape, vals |-> [x \in Indices(LesionShape) |-> 1]],
      nii_img |-> [zooms |-> <<2, 1, 3>>]]}

\* the records that are replayed: every normalization of these vertex lists
RecordSources == {ExampleVertices, <<Vec(1, 2, 3)>>} \cup SkewVertices

\* the instant of the wall clock, in seconds
MaxTime == 1

\* registered volumes at any one time
MaxFiles == 2

\* datetime.utcnow() + timedelta(days=7), in the clock's unit
TrialPeriod == 2

\* trial_max_uploads
TrialMaxUploads == 2

AdminId == 1

DoctorId == 2

UserIds == {AdminId, DoctorId}

\* the uploads of the model: a scan under two voxel spacings and a mask
Uploads ==
    {[filename |-> "scan.nii", type |-> "brain", data |-> BrainData,
      nii_img |-> [zooms |-> <<1, 1, 1>>]],
     [filename |-> "scan.nii", type |-> "brain", data |-> BrainData,
      nii_img |-> [zooms |-> <<2, 1, 3>>]],
     [filename |-> "scan.nii", type |-> "lesion", data |-> ExampleLesionData,
      nii_img |-> [zooms |-> <<2, 1, 3>>]]}

\* the users that upload
Uploaders == {DoctorId}

FileIds == Uploaders \X (0..MaxTime) \X {"scan.nii"}

\* request bodies of normalize-mesh: defaults, a threshold no voxel exceeds,
\* an unknown method
NormalizeRequests ==
    {[method |-> "cartesian", params |-> EmptyDict],
     [method |-> "spherical", params |-> EmptyDict],
     [method |-> "cartesian", params |-> [threshold |-> I(1)]],
     [method |-> "cylindrical", params |-> EmptyDict]}

\* query strings of mesh: threshold and smoothing left at their defaults
MeshQueries == [use_normalized : BOOLEAN, use_cache : BOOLEAN]

VARIABLES call, users, now, uploaded_files, processing_cache, resp, produced_by, served, earlier, threads, cache_lock

vars == <<call, users, now, uploaded_files, processing_cache, resp, produced_by, served, earlier, threads, cache_lock>>

registry_vars == <<users, now, uploaded_files, processing_cache, resp, produced_by, served, earlier, threads, cache_lock>>

\* the request threads and the lock, used when requests overlap
conc_vars == <<threads, cache_lock>>

\* history variables, written by the observed steps only
history_vars == <<produced_by, served, earlier>>

\* the service right after start: the default administrator and one
\* registered doctor on trial, nothing uploaded
InitRegistry ==
    /\ users = [u \in UserIds |->
                  IF u = AdminId
                  THEN [role |-> "admin", status |-> "approved", trial_uploads_count |-> 0,
                        trial_ends_at |-> TrialPeriod]
                  ELSE [role |-> "doctor", status |-> "trial", trial_uploads_count |-> 0,
                        trial_ends_at |-> TrialPeriod]]
    /\ now = 0
    /\ uploaded_files = EmptyDict
    /\ processing_cache = [data |-> EmptyDict, mesh |-> EmptyDict]
    /\ resp = [op |-> "none"]
    /\ produced_by = EmptyDict
    /\ served = [op |-> "none"]
    /\ earlier = [op |-> "none"]
    /\ threads = EmptyDict
    /\ cache_lock = 0

NormalizeInput(v, m, p) ==
    call = [op |-> "normalize", done |-> FALSE, vertices |-> v, method |-> m, params |-> p]

\* the record that is replayed comes from normalizing one of RecordSources
PropagateWith(m, info) ==
    \E la \in LesionFiles, lb \in PairedLesionFiles, z \in ZoomChoices :
      call = [op |-> "propagate", done |-> FALSE, method |-> m, transform_info |-> info,
              lesion_a |-> la, lesion_b |-> lb, brain_zooms |-> z]

PropagateInput(v, m, p) == PropagateWith(m, normalize_dispatch(v, m, p).transform_info)

InitPure ==
    /\ InitRegistry
    /\ \/ \E v \in VertexLists, m \in Methods : \E p \in ParamsOf(m) : NormalizeInput(v, m, p)
       \/ \E v \in RecordSources, m \in Methods : \E p \in ParamsOf(m) : PropagateInput(v, m, p)

\* normalize(mesh_physical_space, method, params)
NormalizeDone(c, res) ==
    [op |-> "normalize", done |-> TRUE, vertices |-> c.vertices, method |-> c.method,
     params |-> c.params, normalized |-> res.vertices,
     transform_info |-> res.transform_info]

NormalizeCall ==
    /\ UNCHANGED registry_vars
    /\ call.op = "normalize" /\ ~call.done
    /\ call' = NormalizeDone(call,
                   normalize_dispatch(call.vertices, call.method, call.params))

\* propagate(transform_record, companion_volume), for two companions and one record
PropagateCall ==
    /\ UNCHANGED registry_vars
    /\ call.op = "propagate" /\ ~call.done
    /\ call' = [op |-> "propagate", done |-> TRUE, method |-> call.method,
                transform_info |-> call.transform_info,
                brain_zooms |-> call.brain_zooms,
                lesion_a |-> call.lesion_a, lesion_b |-> call.lesion_b,
                result_a |-> transform_lesion_coordinates(call.lesion_a,
                                 call.transform_info, call.method, call.brain_zooms),
                result_b |-> transform_lesion_coordinates(call.lesion_b,
                                 call.transform_info, call.method, call.brain_zooms)]

NextPure == NormalizeCall \/ PropagateCall

SpecPure == InitPure /\ [][NextPure]_vars

(***************************************************************************)
(* Users (database.py)                                                     *)
(***************************************************************************)
\* User.is_trial_active at instant t
is_trial_active(user, t) == user.status \in {"trial", "pending"} /\ t < user.trial_ends_at

\* User.can_upload at instant t: the verdict and the row it leaves
can_upload(user, t) ==
    IF user.role = "admin" THEN [ok |-> TRUE, user |-> user]
    ELSE IF user.status = "approved" THEN [ok |-> TRUE, user |-> user]
    ELSE IF user.status = "trial"
    THEN IF ~is_trial_active(user, t)
         THEN [ok |-> FALSE, user |-> [user EXCEPT !.status = "suspended"]]
         ELSE IF user.trial_uploads_count >= TrialMaxUploads
         THEN [ok |-> FALSE, user |-> [user EXCEPT !.status = "suspended"]]
         ELSE [ok |-> TRUE, user |-> user]
    ELSE [ok |-> FALSE, user |-> user]

\* User.increment_upload_count
\* variant: the counter grows but the user stays on trial at the limit
increment_upload_count_stays_trial(user) ==
    IF user.status = "trial" THEN [user EXCEPT !.trial_uploads_count = @ + 1] ELSE user

increment_upload_count(user) ==
    IF user.status = "trial"
    THEN [user EXCEPT !.trial_uploads_count = @ + 1,
                      !.status = IF user.trial_uploads_count + 1 >= TrialMaxUploads
                                 THEN "pending" ELSE "trial"]
    ELSE user

(***************************************************************************)
(* Dictionaries, fingerprints and cache keys                               *)
(***************************************************************************)
\* d[k] = v
Put(d, k, v) == [x \in DOMAIN d \cup {k} |-> IF x = k THEN v ELSE d[x]]

\* d[k] = e[k] for every key k of e
PutAll(d, e) == [x \in DOMAIN d \cup DOMAIN e |-> IF x \in DOMAIN e THEN e[x] ELSE d[x]]

\* del d[k]
Del(d, k) == [x \in DOMAIN d \ {k} |-> d[x]]

\* data.tobytes(): the samples in C order, without the shape
tobytes(data) ==
    [p \in 1..(data.shape[1] * data.shape[2] * data.shape[3]) |->
       data.vals[<<(p - 1) \div (data.shape[2] * data.shape[3]),
                   ((p - 1) \div data.shape[3]) % data.shape[2],
                   (p - 1) % data.shape[3]>>]]

RECURSIVE HashRange(_, _, _)
HashRange(bytes, lo, hi) ==
    IF lo = hi THEN bytes[lo] + 1
    ELSE (HashRange(bytes, lo, (lo + hi) \div 2) * 31
            + HashRange(bytes, (lo + hi) \div 2 + 1, hi) * 17 + 7) % 65521

\* hash(bytes): a function of the byte string alone
py_hash(bytes) == IF Len(bytes) = 0 THEN 0 ELSE HashRange(bytes, 1, Len(bytes))

\* f"{data_hash}_{threshold}_{smoothing}": the three values, each float in
\* its one printed form
cache_key(data_hash, threshold, smoothing) ==
    [data_hash |-> data_hash, threshold |-> Norm(threshold.n, threshold.d, threshold.r),
     smoothing |-> Norm(smoothing.n, smoothing.d, smoothing.r)]

\* f"user_{user_id}_{int(time.time())}_{original_filename}"
file_name(user_id, t, original_filename) == <<user_id, t, original_filename>>

\* variant: any account of the service passes
check_file_access_any_account(file_id, user_id) ==
    file_id \in DOMAIN uploaded_files => user_id \in DOMAIN users

\* check_file_access
check_file_access(file_id, user_id) ==
    IF file_id \in DOMAIN uploaded_files
    THEN IF uploaded_files[file_id].user_id # user_id
         THEN user_id \in DOMAIN users /\ users[user_id].role = "admin"
         ELSE TRUE
    ELSE TRUE

file_type_of(file_data) == file_data.info.file_type

(***************************************************************************)
(* upload_file                                                             *)
(***************************************************************************)
\* extract_basic_info with filename, file_type and file_id added
upload_info(f, filename) ==
    [shape |-> f.data.shape, zooms |-> get_zooms(f.nii_img), filename |-> filename,
     file_type |-> f.type, file_id |-> filename]

upload_entry(f, filename, data_hash, user_id) ==
    [data |-> f.data, nii_img |-> f.nii_img, info |-> upload_info(f, filename),
     data_hash |-> data_hash, user_id |-> user_id]

upload_store(f, filename, data_hash, user_id) ==
    /\ uploaded_files' = Put(uploaded_files, filename, upload_entry(f, filename, data_hash, user_id))
    /\ processing_cache' = [processing_cache EXCEPT !.data = Put(@, data_hash, [data |-> f.data])]
    /\ resp' = [op |-> "upload", status |-> 200, file_id |-> filename]

upload_checked(user_id, f, verdict) ==
    IF ~verdict.ok
    THEN /\ users' = [users EXCEPT ![user_id] = verdict.user]
         /\ resp' = [op |-> "upload", status |-> 403]
         /\ UNCHANGED <<uploaded_files, processing_cache>>
    ELSE /\ users' = [users EXCEPT ![user_id] = increment_upload_count(verdict.user)]
         /\ upload_store(f, file_name(user_id, now, f.filename), py_hash(tobytes(f.data)), user_id)

upload_file(user_id, f) ==
    /\ \/ Cardinality(DOMAIN uploaded_files) < MaxFiles
       \/ file_name(user_id, now, f.filename) \in DOMAIN uploaded_files
    /\ upload_checked(user_id, f, can_upload(users[user_id], now))
    /\ UNCHANGED <<call, now>>

(***************************************************************************)
(* normalize_mesh                                                          *)
(***************************************************************************)
\* file_data.get('normalized_data', file_data['data'])
volume_data(file_data) == Get(file_data, "normalized_data", file_data.data)

\* the dictionary stored as normalized_mesh_data
\* variant: the last normalized vertex is not stored
normalized_mesh_data_short(normalized_vertices, faces, zooms, method, params) ==
    [vertices |-> SubSeq(normalized_vertices, 1, Len(normalized_vertices) - 1),
     faces |-> faces,
     centroid |-> np_mean(normalized_vertices),
     voxel_spacing |-> zooms,
     bounds |-> [min |-> np_min(normalized_vertices), max |-> np_max(normalized_vertices)],
     normalization_applied |-> TRUE,
     normalization_method |-> method,
     normalization_params |-> params]

normalized_mesh_data(normalized_vertices, faces, zooms, method, params) ==
    [vertices |-> normalized_vertices,
     faces |-> faces,
     centroid |-> np_mean(normalized_vertices),
     voxel_spacing |-> zooms,
     bounds |-> [min |-> np_min(normalized_vertices), max |-> np_max(normalized_vertices)],
     normalization_applied |-> TRUE,
     normalization_method |-> method,
     normalization_params |-> params]

\* the four fields stored on the normalized file
primary_fields(res, faces, zooms, method, params) ==
    [normalized_mesh_data |-> normalized_mesh_data(res.vertices, faces, zooms, method, params),
     mesh_normalization_method |-> method,
     mesh_normalization_params |-> params,
     mesh_transform_info |-> res.transform_info]

\* the four fields stored on a lesion file when the replay returned a result
lesion_fields(lesion_result, method, transform_info) ==
    [normalized_lesion_coordinates |-> lesion_result.coordinates,
     lesion_transform_applied |-> TRUE,
     lesion_transform_method |-> method,
     lesion_transform_info |-> transform_info]

\* the files the loop transforms: lesion files whose user_id is the requester's
is_lesion_of(file_data, user_id) ==
    Get(file_data, "user_id", 0) = user_id /\ file_type_of(file_data) = "lesion"

\* variant: a lesion file without a result is marked as not transformed
lesion_stored_marked(file_data, lesion_result, method, transform_info) ==
    IF IsNone(lesion_result) THEN PutAll(file_data, [lesion_transform_applied |-> FALSE])
    ELSE PutAll(file_data, lesion_fields(lesion_result, method, transform_info))

lesion_stored(file_data, lesion_result, method, transform_info) ==
    IF IsNone(lesion_result) THEN file_data
    ELSE PutAll(file_data, lesion_fields(lesion_result, method, transform_info))

\* one pass of the loop body over other_file_data
lesion_pass(file_data, user_id, transform_info, method, zooms) ==
    IF is_lesion_of(file_data, user_id)
    THEN lesion_stored(file_data,
                       transform_lesion_coordinates(file_data, transform_info, method, zooms),
                       method, transform_info)
    ELSE file_data

\* the registry after the loop over uploaded_files.items()
lesions_transformed(files, user_id, transform_info, method, zooms) ==
    [id \in DOMAIN files |-> lesion_pass(files[id], user_id, transform_info, method, zooms)]

\* the lesion files that received coordinates in this request
lesions_written(after, user_id) ==
    {id \in DOMAIN after : /\ is_lesion_of(after[id], user_id)
                           /\ "normalized_lesion_coordinates" \in DOMAIN after[id]}

\* the entry appended to lesion_transform_results for one lesion file
lesion_entry(other_file_id, lesion_result) ==
    IF IsNone(lesion_result)
    THEN [file_id |-> other_file_id, status |-> "no_lesions_found", transform_applied |-> FALSE]
    ELSE [file_id |-> other_file_id, status |-> "success",
          lesion_count |-> lesion_result.lesion_count, transform_applied |-> TRUE]

\* lesion_transform_results, as the set of its entries
lesion_transform_results(files, user_id, transform_info, method, zooms) ==
    {lesion_entry(id, transform_lesion_coordinates(files[id], transform_info, method, zooms)) :
        id \in {x \in DOMAIN files : is_lesion_of(files[x], user_id)}}

normalize_commit(file_id, user_id, after, results) ==
    /\ uploaded_files' = after
    /\ resp' = [op |-> "normalize", status |-> 200, file_id |-> file_id, user_id |-> user_id,
                normalized_mesh_data |-> after[file_id].normalized_mesh_data,
                method |-> after[file_id].mesh_normalization_method,
                transform_info |-> after[file_id].mesh_transform_info,
                automatic_lesion_transforms |-> results]

\* variant: the method is recorded on the target before it is found unknown
normalize_store_method_first(file_id, user_id, file_data, mesh, res, method, params) ==
    IF IsNone(res)
    THEN /\ resp' = [op |-> "normalize", status |-> 400, error |-> "unknown method"]
         /\ uploaded_files' = Put(uploaded_files, file_id,
                                  PutAll(file_data, [mesh_normalization_method |-> method]))
    ELSE normalize_commit(file_id, user_id,
             lesions_transformed(
                 Put(uploaded_files, file_id,
                     PutAll(file_data,
                            primary_fields(res, mesh.faces, get_zooms(file_data.nii_img),
                                           method, params))),
                 user_id, res.transform_info, method, get_zooms(file_data.nii_img)),
             lesion_transform_results(uploaded_files, user_id, res.transform_info, method,
                                      get_zooms(file_data.nii_img)))

normalize_store(file_id, user_id, file_data, mesh, res, method, params) ==
    IF IsNone(res)
    THEN /\ resp' = [op |-> "normalize", status |-> 400, error |-> "unknown method"]
         /\ UNCHANGED uploaded_files
    ELSE normalize_commit(file_id, user_id,
             lesions_transformed(
                 Put(uploaded_files, file_id,
                     PutAll(file_data,
                            primary_fields(res, mesh.faces, get_zooms(file_data.nii_img),
                                           method, params))),
                 user_id, res.transform_info, method, get_zooms(file_data.nii_img)),
             lesion_transform_results(uploaded_files, user_id, res.transform_info, method,
                                      get_zooms(file_data.nii_img)))

normalize_with_mesh(file_id, user_id, file_data, mesh, method, params) ==
    IF IsNone(mesh)
    THEN /\ resp' = [op |-> "normalize", status |-> 400, error |-> "no mesh"]
         /\ UNCHANGED uploaded_files
    ELSE normalize_store(file_id, user_id, file_data, mesh,
             normalize_dispatch(scale_by_zooms(mesh.vertices, get_zooms(file_data.nii_img)),
                                method, params),
             method, params)

normalize_file(file_id, user_id, file_data, method, params) ==
    IF file_type_of(file_data) = "lesion"
    THEN /\ resp' = [op |-> "normalize", status |-> 400, error |-> "lesion file"]
         /\ UNCHANGED uploaded_files
    ELSE normalize_with_mesh(file_id, user_id, file_data,
             generate_mesh_from_data(volume_data(file_data),
                                     Get(params, "threshold", Rat(1, 10)),
                                     Get(params, "smoothing", I(1))),
             method, params)

normalize_mesh(user_id, file_id, request) ==
    /\ IF ~check_file_access(file_id, user_id)
       THEN /\ resp' = [op |-> "normalize", status |-> 403]
            /\ UNCHANGED uploaded_files
       ELSE IF file_id \notin DOMAIN uploaded_files
       THEN /\ resp' = [op |-> "normalize", status |-> 404]
            /\ UNCHANGED uploaded_files
       ELSE normalize_file(file_id, user_id, uploaded_files[file_id],
                           Get(request, "method", "cartesian"),
                           Get(request, "params", EmptyDict))
    /\ UNCHANGED <<call, users, now, processing_cache>>

(***************************************************************************)
(* get_mesh and handle_lesion_coordinates                                  *)
(***************************************************************************)
\* the reply with a mesh, and the request it answers
mesh_response(file_id, file_data, normalized, from_cache, use_cache, threshold, smoothing, mesh_data, mesh_stats) ==
    [op |-> "get_mesh", status |-> 200, file_id |-> file_id, data_type |-> "mesh",
     normalized |-> normalized, from_cache |-> from_cache,
     mesh_data |-> mesh_data, mesh_stats |-> mesh_stats,
     request |-> [data_hash |-> Get(file_data, "data_hash", 0), use_cache |-> use_cache,
                  threshold |-> threshold, smoothing |-> smoothing]]

mesh_reply(file_id, file_data, normalized, from_cache, use_cache, threshold, smoothing, mesh_data, mesh_stats) ==
    resp' = mesh_response(file_id, file_data, normalized, from_cache, use_cache, threshold,
                          smoothing, mesh_data, mesh_stats)

mesh_failure(status) ==
    /\ resp' = [op |-> "get_mesh", status |-> status]
    /\ UNCHANGED processing_cache

\* the stored transformed coordinates of a lesion file
lesion_transformed_reply(file_id, file_data) ==
    [op |-> "get_mesh", status |-> 200, file_id |-> file_id,
     data_type |-> "lesion_coordinates", normalized |-> TRUE,
     coordinates |-> file_data.normalized_lesion_coordinates,
     transform_info |-> Get(file_data, "lesion_transform_info", EmptyDict),
     lesion_count |-> Len(file_data.normalized_lesion_coordinates),
     coordinate_type |-> "transformed",
     transform_method |-> Get(file_data, "lesion_transform_method", None)]

\* the lesion's own coordinates, centred on their own centroid
lesion_centered_reply(file_id, lesion_indices, lesion_coords_mm, zooms) ==
    [op |-> "get_mesh", status |-> 200, file_id |-> file_id,
     data_type |-> "lesion_coordinates", normalized |-> FALSE,
     coordinates |-> RowsSub(lesion_coords_mm, np_mean(lesion_coords_mm)),
     lesion_count |-> Len(lesion_indices),
     coordinate_type |-> "original_centered",
     voxel_spacing |-> zooms,
     original_centroid |-> np_mean(lesion_coords_mm)]

lesion_original_reply(file_id, lesion_indices, zooms) ==
    IF Len(lesion_indices) = 0
    THEN [op |-> "get_mesh", status |-> 200, file_id |-> file_id,
          data_type |-> "lesion_coordinates", normalized |-> FALSE,
          coordinates |-> <<>>, lesion_count |-> 0]
    ELSE lesion_centered_reply(file_id, lesion_indices, indices_to_mm(lesion_indices, zooms), zooms)

\* 'normalized_lesion_coordinates' in file_data and file_data.get('lesion_transform_applied')
serves_transformed(file_data) ==
    /\ "normalized_lesion_coordinates" \in DOMAIN file_data
    /\ Get(file_data, "lesion_transform_applied", FALSE)

handle_lesion_coordinates(file_data, file_id) ==
    /\ resp' = IF serves_transformed(file_data)
               THEN lesion_transformed_reply(file_id, file_data)
               ELSE lesion_original_reply(file_id, argwhere_positive(volume_data(file_data)),
                                          get_zooms(file_data.nii_img))
    /\ UNCHANGED processing_cache

\* the stored normalized mesh, never marked as served from the cache
normalized_response(file_id, file_data, use_cache, threshold, smoothing) ==
    mesh_response(file_id, file_data, TRUE, FALSE, use_cache, threshold, smoothing,
                  file_data.normalized_mesh_data,
                  [vertex_count |-> Len(file_data.normalized_mesh_data.vertices),
                   face_count |-> Len(file_data.normalized_mesh_data.faces),
                   normalization_applied |-> TRUE,
                   normalization_method |-> Get(file_data, "mesh_normalization_method", None),
                   transform_info |-> Get(file_data, "mesh_transform_info", EmptyDict)])

get_mesh_normalized(file_id, file_data, use_cache, threshold, smoothing) ==
    /\ resp' = normalized_response(file_id, file_data, use_cache, threshold, smoothing)
    /\ UNCHANGED processing_cache

\* a service that returns the computed mesh without storing it
get_mesh_prepared_unstored(file_id, file_data, caching, use_cache, threshold, smoothing, mesh_data, mesh_stats) ==
    /\ UNCHANGED processing_cache
    /\ mesh_reply(file_id, file_data, FALSE, FALSE, use_cache, threshold, smoothing, mesh_data, mesh_stats)

\* a miss: the computed mesh is returned and, with use_cache and a
\* fingerprint, stored
get_mesh_prepared(file_id, file_data, caching, use_cache, threshold, smoothing, mesh_data, mesh_stats) ==
    /\ processing_cache' =
         IF caching
         THEN [processing_cache EXCEPT !.mesh =
                 Put(@, cache_key(file_data.data_hash, threshold, smoothing),
                     [mesh |-> [mesh_data |-> mesh_data, mesh_stats |-> mesh_stats]])]
         ELSE processing_cache
    /\ mesh_reply(file_id, file_data, FALSE, FALSE, use_cache, threshold, smoothing, mesh_data, mesh_stats)

get_mesh_generated(file_id, file_data, caching, use_cache, threshold, smoothing, mesh) ==
    IF IsNone(mesh) THEN mesh_failure(400)
    ELSE get_mesh_prepared(file_id, file_data, caching, use_cache, threshold, smoothing,
                           prepare_mesh_for_frontend(mesh.vertices, mesh.faces, file_data.nii_img),
                           mesh.mesh_stats)

get_mesh_hit(file_id, file_data, use_cache, threshold, smoothing, cached_mesh) ==
    /\ mesh_reply(file_id, file_data, FALSE, TRUE, use_cache, threshold, smoothing,
                  cached_mesh.mesh_data, cached_mesh.mesh_stats)
    /\ UNCHANGED processing_cache

\* caching is "use_cache and data_hash": a fingerprint of 0 is no fingerprint
get_mesh_original(file_id, file_data, caching, use_cache, threshold, smoothing) ==
    IF caching /\ cache_key(file_data.data_hash, threshold, smoothing) \in DOMAIN processing_cache.mesh
    THEN get_mesh_hit(file_id, file_data, use_cache, threshold, smoothing,
                      processing_cache.mesh[cache_key(file_data.data_hash, threshold, smoothing)].mesh)
    ELSE get_mesh_generated(file_id, file_data, caching, use_cache, threshold, smoothing,
                            generate_mesh_from_data(volume_data(file_data), threshold, smoothing))

get_mesh_brain(file_id, file_data, use_normalized, use_cache, threshold, smoothing) ==
    IF use_normalized /\ "normalized_mesh_data" \in DOMAIN file_data
    THEN get_mesh_normalized(file_id, file_data, use_cache, threshold, smoothing)
    ELSE get_mesh_original(file_id, file_data,
                           use_cache /\ Get(file_data, "data_hash", 0) # 0, use_cache,
                           threshold, smoothing)

get_mesh(user_id, file_id, query) ==
    /\ IF ~check_file_access(file_id, user_id) THEN mesh_failure(403)
       ELSE IF file_id \notin DOMAIN uploaded_files THEN mesh_failure(404)
       ELSE IF file_type_of(uploaded_files[file_id]) = "lesion"
       THEN handle_lesion_coordinates(uploaded_files[file_id], file_id)
       ELSE get_mesh_brain(file_id, uploaded_files[file_id],
                           Get(query, "use_normalized", TRUE), Get(query, "use_cache", TRUE),
                           Get(query, "threshold", Rat(1, 10)), Get(query, "smoothing", I(1)))
    /\ UNCHANGED <<call, users, now, uploaded_files>>

(***************************************************************************)
(* get_slice                                                               *)
(***************************************************************************)
\* a 2D array is the tuple of its rows
Height(m) == Len(m)

Width(m) == IF Len(m) = 0 THEN 0 ELSE Len(m[1])

\* np.rot90(m, k=1): counter-clockwise
rot90(m) == Eager([i \in 1..Width(m) |-> Eager([j \in 1..Height(m) |-> m[j][Width(m) + 1 - i]])])

\* np.rot90(m, k=-1): clockwise
rot90_clockwise(m) == Eager([i \in 1..Width(m) |-> Eager([j \in 1..Height(m) |-> m[Height(m) + 1 - j][i]])])

flipud(m) == Eager([i \in 1..Height(m) |-> m[Height(m) + 1 - i]])

fliplr(m) == Eager([i \in 1..Height(m) |-> Eager([j \in 1..Width(m) |-> m[i][Width(m) + 1 - j]])])

apply_radiological_orientation(data, view_type) ==
    IF view_type = "axial" THEN flipud(rot90_clockwise(data))
    ELSE IF view_type = "coronal" THEN rot90(data)
    ELSE IF view_type = "sagittal" THEN fliplr(rot90(data))
    ELSE data

\* the fixed axis of a view (0 for a view the service does not know)
slice_axis(view_type) ==
    IF view_type = "axial" THEN 3 ELSE IF view_type = "coronal" THEN 2
    ELSE IF view_type = "sagittal" THEN 1 ELSE 0

\* data[:, :, k], data[:, k, :] or data[k, :, :]
raw_slice(data, view_type, slice_index) ==
    IF view_type = "axial"
    THEN Eager([i \in 1..data.shape[1] |->
                  Eager([j \in 1..data.shape[2] |-> data.vals[<<i - 1, j - 1, slice_index>>]])])
    ELSE IF view_type = "coronal"
    THEN Eager([i \in 1..data.shape[1] |->
                  Eager([j \in 1..data.shape[3] |-> data.vals[<<i - 1, slice_index, j - 1>>]])])
    ELSE Eager([i \in 1..data.shape[2] |->
                  Eager([j \in 1..data.shape[3] |-> data.vals[<<slice_index, i - 1, j - 1>>]])])

slice_reply(data, view_type, slice_index, oriented_slice) ==
    [op |-> "get_slice", status |-> 200, slice_data |-> oriented_slice,
     view_type |-> view_type, slice_index |-> slice_index,
     shape |-> <<Height(oriented_slice), Width(oriented_slice)>>,
     max_slices |-> data.shape[slice_axis(view_type)],
     original_shape |-> data.shape, orientation_applied |-> TRUE]

\* variant: the last slice of every view is out of range
slice_of_short(data, view_type, slice_index) ==
    IF slice_axis(view_type) = 0
    THEN [op |-> "get_slice", status |-> 400, error |-> "Invalid view type"]
    ELSE IF slice_index + 1 >= data.shape[slice_axis(view_type)] \/ slice_index < 0
    THEN [op |-> "get_slice", status |-> 400, error |-> "Slice index out of range"]
    ELSE slice_reply(data, view_type, slice_index,
                     apply_radiological_orientation(raw_slice(data, view_type, slice_index),
                                                    view_type))

slice_of(data, view_type, slice_index) ==
    IF slice_axis(view_type) = 0
    THEN [op |-> "get_slice", status |-> 400, error |-> "Invalid view type"]
    ELSE IF slice_index >= data.shape[slice_axis(view_type)] \/ slice_index < 0
    THEN [op |-> "get_slice", status |-> 400, error |-> "Slice index out of range"]
    ELSE slice_reply(data, view_type, slice_index,
                     apply_radiological_orientation(raw_slice(data, view_type, slice_index),
                                                    view_type))

\* variant: the plane that was read is blanked in the volume
get_slice_in_place(user_id, file_id, view_type, slice_index) ==
    /\ resp' = IF ~check_file_access(file_id, user_id) THEN [op |-> "get_slice", status |-> 403]
               ELSE IF file_id \notin DOMAIN uploaded_files THEN [op |-> "get_slice", status |-> 404]
               ELSE slice_of(volume_data(uploaded_files[file_id]), view_type, slice_index)
    /\ uploaded_files' =
         IF resp'.status = 200
         THEN [uploaded_files EXCEPT ![file_id].data.vals =
                 [x \in DOMAIN @ |-> IF x[slice_axis(view_type)] = slice_index THEN 0 ELSE @[x]]]
         ELSE uploaded_files
    /\ UNCHANGED <<call, users, now, processing_cache>>

get_slice(user_id, file_id, view_type, slice_index) ==
    /\ resp' = IF ~check_file_access(file_id, user_id) THEN [op |-> "get_slice", status |-> 403]
               ELSE IF file_id \notin DOMAIN uploaded_files THEN [op |-> "get_slice", status |-> 404]
               ELSE slice_of(volume_data(uploaded_files[file_id]), view_type, slice_index)
    /\ UNCHANGED <<call, users, now, uploaded_files, processing_cache>>

(***************************************************************************)
(* clear_cache, the clock, and the service as a sequence of requests       *)
(***************************************************************************)
\* variant: only the cached volumes are dropped
clear_cache_keeps_meshes(user_id) ==
    /\ processing_cache' = [processing_cache EXCEPT !.data = EmptyDict]
    /\ resp' = [op |-> "clear_cache", status |-> 200]
    /\ UNCHANGED <<call, users, now, uploaded_files>>

clear_cache(user_id) ==
    /\ processing_cache' = [data |-> EmptyDict, mesh |-> EmptyDict]
    /\ resp' = [op |-> "clear_cache", status |-> 200]
    /\ UNCHANGED <<call, users, now, uploaded_files>>

\* time.time() moves on between requests
Tick ==
    /\ now < MaxTime
    /\ now' = now + 1
    /\ UNCHANGED <<call, users, uploaded_files, processing_cache, resp, history_vars, conc_vars>>

Init ==
    /\ InitRegistry
    /\ call = [op |-> "none", done |-> TRUE]

\* history: the file whose normalization wrote the coordinates a lesion holds
Upload ==
    /\ \E user_id \in Uploaders, f \in Uploads : upload_file(user_id, f)
    /\ produced_by' = IF resp'.status = 200 THEN Del(produced_by, resp'.file_id) ELSE produced_by
    /\ UNCHANGED <<served, earlier, conc_vars>>

Normalize ==
    /\ \E user_id \in UserIds, file_id \in FileIds, request \in NormalizeRequests :
         normalize_mesh(user_id, file_id, request)
    /\ produced_by' =
         IF resp'.status = 200
         THEN [id \in DOMAIN produced_by \cup lesions_written(uploaded_files', resp'.user_id) |->
                 IF id \in lesions_written(uploaded_files', resp'.user_id) THEN resp'.file_id
                 ELSE produced_by[id]]
         ELSE produced_by
    /\ UNCHANGED <<served, earlier, conc_vars>>

GetMesh ==
    /\ \E user_id \in UserIds, file_id \in FileIds : get_mesh(user_id, file_id, EmptyDict)
    /\ UNCHANGED <<history_vars, conc_vars>>

Next == Upload \/ Normalize \/ GetMesh \/ Tick

Spec == Init /\ [][Next]_vars

(***************************************************************************)
(* The result cache under sequential requests, with an observer that       *)
(* remembers one successful mesh reply (served) until the next clear and   *)
(* hands it to every later request with the same file, fingerprint,        *)
(* threshold and smoothing (earlier)                                       *)
(***************************************************************************)
CacheQueries ==
    {EmptyDict, [use_normalized |-> FALSE], [use_normalized |-> FALSE, use_cache |-> FALSE]}

SliceViews == {"axial", "sagittal"}

SliceIndexes == {0, 5}

BrainUploads == {f \in Uploads : f.type = "brain"}

NothingServed == [op |-> "none"]

same_request(reply, file_id, query) ==
    /\ reply.op = "get_mesh"
    /\ reply.file_id = file_id
    /\ file_id \in DOMAIN uploaded_files
    /\ reply.request.data_hash = Get(uploaded_files[file_id], "data_hash", 0)
    /\ reply.request.threshold = Get(query, "threshold", Rat(1, 10))
    /\ reply.request.smoothing = Get(query, "smoothing", I(1))

observe(file_id, query) ==
    /\ earlier' = IF same_request(served, file_id, query) THEN served ELSE NothingServed
    /\ served' \in IF served.op = "none" /\ resp'.status = 200 /\ resp'.data_type = "mesh"
                   THEN {served, resp'} ELSE {served}

CacheGetMesh ==
    /\ \E file_id \in FileIds, query \in CacheQueries :
         get_mesh(DoctorId, file_id, query) /\ observe(file_id, query)
    /\ UNCHANGED <<produced_by, conc_vars>>

CacheClear ==
    /\ clear_cache(DoctorId)
    /\ served' = NothingServed
    /\ earlier' = NothingServed
    /\ UNCHANGED <<produced_by, conc_vars>>

CacheUpload ==
    /\ \E f \in BrainUploads : upload_file(DoctorId, f)
    /\ earlier' = NothingServed
    /\ UNCHANGED <<produced_by, served, conc_vars>>

CacheNormalize ==
    /\ \E file_id \in FileIds :
         normalize_mesh(DoctorId, file_id, [method |-> "cartesian", params |-> EmptyDict])
    /\ earlier' = NothingServed
    /\ UNCHANGED <<produced_by, served, conc_vars>>

CacheSlice ==
    /\ \E file_id \in FileIds, view_type \in SliceViews, slice_index \in SliceIndexes :
         get_slice(DoctorId, file_id, view_type, slice_index)
    /\ earlier' = NothingServed
    /\ UNCHANGED <<produced_by, served, conc_vars>>

CacheTick == Tick

InitCache ==
    /\ InitRegistry
    /\ call = [op |-> "none", done |-> TRUE]

NextCache == CacheUpload \/ CacheNormalize \/ CacheGetMesh \/ CacheSlice \/ CacheClear \/ CacheTick

SpecCache == InitCache /\ [][NextCache]_vars

(***************************************************************************)
(* A subject with several lesion masks: the administrator, whose uploads   *)
(* are not limited, registers a scan, a mask with a lesion and a mask      *)
(* without one, and normalizes the scan                                    *)
(***************************************************************************)
\* a mask in which no voxel is positive
EmptyLesionData ==
    [shape |-> <<2, 1, 1>>,
     vals |-> [x \in Indices(<<2, 1, 1>>) |-> IF x = <<0, 0, 0>> THEN -1 ELSE 0]]

CompanionUploads ==
    {[filename |-> "scan.nii", type |-> "brain", data |-> BrainData,
      nii_img |-> [zooms |-> <<2, 1, 3>>]],
     [filename |-> "lesion.nii", type |-> "lesion", data |-> ExampleLesionData,
      nii_img |-> [zooms |-> <<2, 1, 3>>]],
     [filename |-> "empty.nii", type |-> "lesion", data |-> EmptyLesionData,
      nii_img |-> [zooms |-> <<1, 1, 1>>]]}

CompanionIds == {AdminId} \X (0..MaxTime) \X {"scan.nii", "lesion.nii", "empty.nii"}

CompanionRequests ==
    {[method |-> "cartesian", params |-> EmptyDict],
     [method |-> "spherical", params |-> [center_mode |-> "geometric_center"]]}

CompanionUpload ==
    /\ \E f \in CompanionUploads : upload_checked(AdminId, f, can_upload(users[AdminId], now))
    /\ produced_by' = IF resp'.status = 200 THEN Del(produced_by, resp'.file_id) ELSE produced_by
    /\ UNCHANGED <<call, now, served, earlier, conc_vars>>

CompanionNormalize ==
    /\ \E user_id \in UserIds, file_id \in CompanionIds, request \in CompanionRequests :
         normalize_mesh(user_id, file_id, request)
    /\ produced_by' =
         IF resp'.status = 200
         THEN [id \in DOMAIN produced_by \cup lesions_written(uploaded_files', resp'.user_id) |->
                 IF id \in lesions_written(uploaded_files', resp'.user_id) THEN resp'.file_id
                 ELSE produced_by[id]]
         ELSE produced_by
    /\ UNCHANGED <<served, earlier, conc_vars>>

CompanionTick == Tick

InitCompanions ==
    /\ InitRegistry
    /\ call = [op |-> "none", done |-> TRUE]

NextCompanions == CompanionUpload \/ CompanionNormalize \/ CompanionTick

SpecCompanions == InitCompanions /\ [][NextCompanions]_vars

(***************************************************************************)
(* Surface extraction on one registered volume: flat volumes, volumes with *)
(* few voxels above the threshold, a volume the extraction raises on.  The *)
(* history variable served logs the call of generate_mesh_from_data that   *)
(* the last request made                                                   *)
(***************************************************************************)
ExtractDatas == {ExtractDataSeq[i] : i \in DOMAIN ExtractDataSeq}

ThresholdLevels == {ThresholdLevelSeq[i] : i \in DOMAIN ThresholdLevelSeq}

Smoothings == {SmoothingSeq[i] : i \in DOMAIN SmoothingSeq}

ExtractUploads ==
    {[filename |-> "scan.nii", type |-> "brain", data |-> d, nii_img |-> [zooms |-> <<1, 1, 1>>]] :
        d \in ExtractDatas}

ExtractId == file_name(AdminId, 0, "scan.nii")

ExtractQueries ==
    [threshold : ThresholdLevels, smoothing : Smoothings, use_cache : BOOLEAN,
     use_normalized : {FALSE}]

\* request bodies of normalize-mesh: two names that are no method, and cartesian
ExtractRequests ==
    [method : {"cylindrical", "Cartesian", "cartesian"},
     params : {EmptyDict, [threshold |-> I(1)], [threshold |-> Rat(1, 2), smoothing |-> I(0)]}]

NoCall == [op |-> "none"]

\* the call generate_mesh_from_data(data, threshold, smoothing) of a request
extract_logged(handler, method, threshold, smoothing, outcome) ==
    [op |-> "extract", handler |-> handler, method |-> method,
     threshold_level |-> threshold, smoothing |-> smoothing,
     returned |-> outcome.returned, printed |-> outcome.printed]

extract_call(handler, method, data, threshold, smoothing) ==
    extract_logged(handler, method, threshold, smoothing,
                   generate_mesh_outcome(data, threshold, smoothing))

ExtractUpload ==
    /\ uploaded_files = EmptyDict
    /\ \E f \in ExtractUploads : upload_checked(AdminId, f, can_upload(users[AdminId], now))
    /\ served' = NoCall
    /\ UNCHANGED <<call, now, produced_by, earlier, conc_vars>>

\* get_mesh generates unless the file is missing or the cache answers
ExtractGetMesh ==
    /\ \E query \in ExtractQueries :
         /\ get_mesh(AdminId, ExtractId, query)
         /\ served' = IF resp'.status = 404 \/ (resp'.status = 200 /\ resp'.from_cache)
                      THEN NoCall
                      ELSE extract_call("get_mesh", "", volume_data(uploaded_files[ExtractId]),
                                        query.threshold, query.smoothing)
    /\ UNCHANGED <<produced_by, earlier, conc_vars>>

\* normalize_mesh generates unless the file is missing
ExtractNormalize ==
    /\ \E request \in ExtractRequests :
         /\ normalize_mesh(AdminId, ExtractId, request)
         /\ served' = IF resp'.status = 404 THEN NoCall
                      ELSE extract_call("normalize_mesh", request.method,
                                        volume_data(uploaded_files[ExtractId]),
                                        Get(request.params, "threshold", Rat(1, 10)),
                                        Get(request.params, "smoothing", I(1)))
    /\ UNCHANGED <<produced_by, earlier, conc_vars>>

InitExtract ==
    /\ InitRegistry
    /\ call = [op |-> "none", done |-> TRUE]

NextExtract == ExtractUpload \/ ExtractGetMesh \/ ExtractNormalize

SpecExtract == InitExtract /\ [][NextExtract]_vars

(***************************************************************************)
(* Slices of one registered volume.  The history variable served logs the  *)
(* last slice request                                                      *)
(***************************************************************************)
SlicePlanes == {"axial", "coronal", "sagittal", "oblique", ""}

\* indexes below, inside and past the extents 1, 4, 5, 10 and 11
SlicePositions == {-1, 0, 1, 3, 4, 5, 9, 10, 11}

SliceUpload == ExtractUpload

\* history: one answered slice request is remembered, and marked when the
\* same request is sent again
slice_remembered(request, reply) ==
    IF earlier.op = "slice"
    THEN {IF earlier.request = request THEN [earlier EXCEPT !.again = TRUE] ELSE earlier}
    ELSE IF reply.status = 200
    THEN {earlier, [op |-> "slice", request |-> request, reply |-> reply, again |-> FALSE]}
    ELSE {earlier}

SliceGet ==
    /\ \E user_id \in UserIds, view_type \in SlicePlanes, slice_index \in SlicePositions :
         /\ get_slice(user_id, ExtractId, view_type, slice_index)
         /\ served' = [op |-> "slice", user_id |-> user_id, view_type |-> view_type,
                       slice_index |-> slice_index]
    /\ earlier' \in slice_remembered(served', resp')
    /\ UNCHANGED <<produced_by, conc_vars>>

NextSlice == SliceUpload \/ SliceGet

SpecSlice == InitExtract /\ [][NextSlice]_vars

(***************************************************************************)
(* Overlapping requests.  The server handles each request on a thread of   *)
(* its own; a step of a thread is one access to the registry, to a         *)
(* registered file's dictionary, to the cache or to the lock, together     *)
(* with the thread-local computation that precedes it                      *)
(***************************************************************************)
Threads == {1, 2}

ConcLesion == file_name(DoctorId, 0, "scan.nii")

ConcBrain == file_name(DoctorId, 1, "scan.nii")

ConcTwin == file_name(AdminId, 2, "scan.nii")

ConcNow == MaxTime + 2

BrainScan(zooms) ==
    [filename |-> "scan.nii", type |-> "brain", data |-> BrainData, nii_img |-> [zooms |-> zooms]]

LesionMask ==
    [filename |-> "scan.nii", type |-> "lesion", data |-> ExampleLesionData,
     nii_img |-> [zooms |-> <<2, 1, 3>>]]

\* the three uploads that precede the overlapping requests
ConcUploaded ==
    Put(Put(Put(EmptyDict,
        ConcLesion, upload_entry(LesionMask, ConcLesion, py_hash(tobytes(LesionMask.data)), DoctorId)),
        ConcBrain, upload_entry(BrainScan(<<1, 1, 1>>), ConcBrain, py_hash(tobytes(BrainData)), DoctorId)),
        ConcTwin, upload_entry(BrainScan(<<2, 1, 3>>), ConcTwin, py_hash(tobytes(BrainData)), AdminId))

\* ... and the doctor's cartesian normalization of the brain scan after them
ConcNormalized(mesh, res) ==
    lesions_transformed(
        Put(ConcUploaded, ConcBrain,
            PutAll(ConcUploaded[ConcBrain],
                   primary_fields(res, mesh.faces, <<1, 1, 1>>, "cartesian", EmptyDict))),
        DoctorId, res.transform_info, "cartesian", <<1, 1, 1>>)

ConcMesh == generate_mesh_from_data(BrainData, Rat(1, 10), I(1))

ConcRegistry ==
    ConcNormalized(ConcMesh,
                   normalize_dispatch(scale_by_zooms(ConcMesh.vertices, <<1, 1, 1>>),
                                      "cartesian", EmptyDict))

ConcRequests ==
    {[op |-> "normalize", user_id |-> DoctorId, file_id |-> ConcBrain,
      body |-> [method |-> "cartesian", params |-> [target_size |-> 50]]],
     [op |-> "normalize", user_id |-> DoctorId, file_id |-> ConcBrain,
      body |-> [method |-> "spherical"]],
     [op |-> "get_mesh", user_id |-> DoctorId, file_id |-> ConcBrain, query |-> EmptyDict],
     [op |-> "get_mesh", user_id |-> DoctorId, file_id |-> ConcLesion, query |-> EmptyDict],
     [op |-> "get_mesh", user_id |-> DoctorId, file_id |-> ConcBrain,
      query |-> [use_normalized |-> FALSE]],
     [op |-> "get_mesh", user_id |-> AdminId, file_id |-> ConcTwin, query |-> EmptyDict],
     [op |-> "upload", user_id |-> AdminId, f |-> LesionMask],
     [op |-> "clear_cache", user_id |-> DoctorId]}

\* a request whose first access is the lock starts at the lock
arrived(req) ==
    IF req.op = "clear_cache" THEN [pc |-> "acquire", then |-> "clear", req |-> req]
    ELSE IF req.op = "stats" THEN [pc |-> "acquire", then |-> "stats", req |-> req]
    ELSE [pc |-> "start", req |-> req]

at(t, pc, op) == threads[t].pc = pc /\ threads[t].req.op = op

goto(t, pc, locals) == threads' = [threads EXCEPT ![t] = PutAll([@ EXCEPT !.pc = pc], locals)]

finish(t, reply) == goto(t, "done", [reply |-> reply])

\* file_data[field] = value, on the dictionary the registry holds
store_field(file_id, field, value) ==
    uploaded_files' = [uploaded_files EXCEPT ![file_id] = Put(@, field, value)]

\* with cache_lock: entering the block
lock_acquire(t) ==
    /\ threads[t].pc = "acquire"
    /\ cache_lock = 0
    /\ cache_lock' = t
    /\ goto(t, threads[t].then, EmptyDict)
    /\ UNCHANGED <<call, users, now, uploaded_files, processing_cache, resp, history_vars>>

(***************************************************************************)
(* normalize_mesh, step by step                                            *)
(***************************************************************************)
PrimaryStores ==
    <<"normalized_mesh_data", "mesh_normalization_method", "mesh_normalization_params",
      "mesh_transform_info">>

LesionStores ==
    <<"normalized_lesion_coordinates", "lesion_transform_applied", "lesion_transform_method",
      "lesion_transform_info">>

normalize_dispatched(t, file_data, mesh, res, method, params) ==
    IF IsNone(res) THEN finish(t, [status |-> 400, error |-> "unknown method"])
    ELSE goto(t, "store",
              [k |-> 1, method |-> method, transform_info |-> res.transform_info,
               zooms |-> get_zooms(file_data.nii_img),
               fields |-> primary_fields(res, mesh.faces, get_zooms(file_data.nii_img),
                                         method, params)])

normalize_extracted(t, file_data, mesh, method, params) ==
    IF IsNone(mesh) THEN finish(t, [status |-> 400, error |-> "no mesh"])
    ELSE normalize_dispatched(t, file_data, mesh,
             normalize_dispatch(scale_by_zooms(mesh.vertices, get_zooms(file_data.nii_img)),
                                method, params),
             method, params)

normalize_found(t, file_data, method, params) ==
    IF file_type_of(file_data) = "lesion"
    THEN finish(t, [status |-> 400, error |-> "lesion file"])
    ELSE normalize_extracted(t, file_data,
             generate_mesh_from_data(volume_data(file_data),
                                     Get(params, "threshold", Rat(1, 10)),
                                     Get(params, "smoothing", I(1))),
             method, params)

\* the lookups in the registry, and the computation on what they returned
normalize_begin(t) ==
    /\ at(t, "start", "normalize")
    /\ IF ~check_file_access(threads[t].req.file_id, threads[t].req.user_id)
       THEN finish(t, [status |-> 403])
       ELSE IF threads[t].req.file_id \notin DOMAIN uploaded_files
       THEN finish(t, [status |-> 404])
       ELSE normalize_found(t, uploaded_files[threads[t].req.file_id],
                            Get(threads[t].req.body, "method", "cartesian"),
                            Get(threads[t].req.body, "params", EmptyDict))
    /\ UNCHANGED <<call, users, now, uploaded_files, processing_cache, resp, history_vars, cache_lock>>

\* one of the four assignments to the normalized file's dictionary
normalize_store_field(t) ==
    /\ at(t, "store", "normalize")
    /\ store_field(threads[t].req.file_id, PrimaryStores[threads[t].k],
                   threads[t].fields[PrimaryStores[threads[t].k]])
    /\ IF threads[t].k < Len(PrimaryStores)
       THEN goto(t, "store", [k |-> threads[t].k + 1])
       ELSE goto(t, "iterate", EmptyDict)
    /\ UNCHANGED <<call, users, now, processing_cache, resp, history_vars, cache_lock>>

\* the keys of a dictionary in insertion order: file ids carry the second of
\* their upload
RECURSIVE insertion_order(_)
insertion_order(ids) ==
    IF ids = {} THEN <<>>
    ELSE <<CHOOSE id \in ids : \A other \in ids : id[2] <= other[2]>>
           \o insertion_order(ids \ {CHOOSE id \in ids : \A other \in ids : id[2] <= other[2]})

\* iter(uploaded_files.items()): the iterator remembers the size
normalize_iterate(t) ==
    /\ at(t, "iterate", "normalize")
    /\ goto(t, "next", [used |-> Cardinality(DOMAIN uploaded_files),
                        todo |-> insertion_order(DOMAIN uploaded_files)])
    /\ UNCHANGED <<call, users, now, uploaded_files, processing_cache, resp, history_vars, cache_lock>>

normalize_lesion(t, other_file_id, lesion_result) ==
    IF IsNone(lesion_result) THEN goto(t, "next", [todo |-> Tail(threads[t].todo)])
    ELSE goto(t, "store_lesion",
              [k |-> 1, other_file_id |-> other_file_id,
               lesion |-> lesion_fields(lesion_result, threads[t].method,
                                        threads[t].transform_info)])

\* next(iterator): RuntimeError when the registry changed size, the reply
\* when the items are exhausted, else the body of the loop up to its first
\* assignment
normalize_next(t) ==
    /\ at(t, "next", "normalize")
    /\ IF Cardinality(DOMAIN uploaded_files) # threads[t].used
       THEN finish(t, [status |-> 500, error |-> "dictionary changed size during iteration"])
       ELSE IF threads[t].todo = <<>>
       THEN finish(t, [status |-> 200])
       ELSE IF is_lesion_of(uploaded_files[Head(threads[t].todo)], threads[t].req.user_id)
       THEN normalize_lesion(t, Head(threads[t].todo),
                transform_lesion_coordinates(uploaded_files[Head(threads[t].todo)],
                                             threads[t].transform_info, threads[t].method,
                                             threads[t].zooms))
       ELSE goto(t, "next", [todo |-> Tail(threads[t].todo)])
    /\ UNCHANGED <<call, users, now, uploaded_files, processing_cache, resp, history_vars, cache_lock>>

\* one of the four assignments to a lesion file's dictionary
normalize_store_lesion_field(t) ==
    /\ at(t, "store_lesion", "normalize")
    /\ store_field(threads[t].other_file_id, LesionStores[threads[t].k],
                   threads[t].lesion[LesionStores[threads[t].k]])
    /\ IF threads[t].k < Len(LesionStores)
       THEN goto(t, "store_lesion", [k |-> threads[t].k + 1])
       ELSE goto(t, "next", [todo |-> Tail(threads[t].todo)])
    /\ UNCHANGED <<call, users, now, processing_cache, resp, history_vars, cache_lock>>

(***************************************************************************)
(* get_mesh and handle_lesion_coordinates, step by step                    *)
(***************************************************************************)
MeshReads == <<"normalized_mesh_data", "mesh_normalization_method", "mesh_transform_info">>

LesionReads ==
    <<"normalized_lesion_coordinates", "lesion_transform_info", "lesion_transform_method">>

\* the request's parameters with their defaults
use_normalized_of(req) == Get(req.query, "use_normalized", TRUE)

use_cache_of(req) == Get(req.query, "use_cache", TRUE)

threshold_of(req) == Get(req.query, "threshold", Rat(1, 10))

smoothing_of(req) == Get(req.query, "smoothing", I(1))

\* file_data.get(field), kept by the thread
read_field(file_data, seen, field) ==
    IF field \in DOMAIN file_data THEN Put(seen, field, file_data[field]) ELSE seen

\* the lookups in the registry
mesh_begin(t) ==
    /\ at(t, "start", "get_mesh")
    /\ IF ~check_file_access(threads[t].req.file_id, threads[t].req.user_id)
       THEN finish(t, [op |-> "get_mesh", status |-> 403])
       ELSE IF threads[t].req.file_id \notin DOMAIN uploaded_files
       THEN finish(t, [op |-> "get_mesh", status |-> 404])
       ELSE IF file_type_of(uploaded_files[threads[t].req.file_id]) = "lesion"
       THEN goto(t, "lesion_check", EmptyDict)
       ELSE goto(t, "mesh_check", EmptyDict)
    /\ UNCHANGED <<call, users, now, uploaded_files, processing_cache, resp, history_vars, cache_lock>>

\* use_normalized and 'normalized_mesh_data' in file_data
mesh_check(t) ==
    /\ at(t, "mesh_check", "get_mesh")
    /\ IF /\ use_normalized_of(threads[t].req)
          /\ "normalized_mesh_data" \in DOMAIN uploaded_files[threads[t].req.file_id]
       THEN goto(t, "mesh_read",
                 [k |-> 1,
                  seen |-> [data_hash |-> Get(uploaded_files[threads[t].req.file_id], "data_hash", 0)]])
       ELSE IF /\ use_cache_of(threads[t].req)
               /\ Get(uploaded_files[threads[t].req.file_id], "data_hash", 0) # 0
       THEN goto(t, "acquire", [then |-> "cache_get"])
       ELSE goto(t, "generate", EmptyDict)
    /\ UNCHANGED <<call, users, now, uploaded_files, processing_cache, resp, history_vars, cache_lock>>

mesh_read_field(t, seen) ==
    IF threads[t].k < Len(MeshReads)
    THEN goto(t, "mesh_read", [k |-> threads[t].k + 1, seen |-> seen])
    ELSE finish(t, normalized_response(threads[t].req.file_id, seen, use_cache_of(threads[t].req),
                                       threshold_of(threads[t].req), smoothing_of(threads[t].req)))

\* one of the three reads of the normalized file's dictionary
mesh_read(t) ==
    /\ at(t, "mesh_read", "get_mesh")
    /\ mesh_read_field(t, read_field(uploaded_files[threads[t].req.file_id], threads[t].seen,
                                     MeshReads[threads[t].k]))
    /\ UNCHANGED <<call, users, now, uploaded_files, processing_cache, resp, history_vars, cache_lock>>

\* variant: the reply on a hit leaves the block without releasing the lock
cache_get_hit_keeps_lock(t) ==
    /\ at(t, "cache_get", "get_mesh")
    /\ IF cache_key(uploaded_files[threads[t].req.file_id].data_hash,
                    threshold_of(threads[t].req), smoothing_of(threads[t].req))
            \in DOMAIN processing_cache.mesh
       THEN /\ finish(t, [op |-> "get_mesh", status |-> 200, from_cache |-> TRUE])
            /\ UNCHANGED cache_lock
       ELSE /\ goto(t, "generate", EmptyDict)
            /\ cache_lock' = 0
    /\ UNCHANGED <<call, users, now, uploaded_files, processing_cache, resp, history_vars>>

\* the lookup in the cache, inside the lock
cache_get(t) ==
    /\ at(t, "cache_get", "get_mesh")
    /\ IF cache_key(uploaded_files[threads[t].req.file_id].data_hash,
                    threshold_of(threads[t].req), smoothing_of(threads[t].req))
            \in DOMAIN processing_cache.mesh
       THEN finish(t, mesh_response(threads[t].req.file_id, uploaded_files[threads[t].req.file_id],
                          FALSE, TRUE, TRUE, threshold_of(threads[t].req),
                          smoothing_of(threads[t].req),
                          processing_cache.mesh[cache_key(
                              uploaded_files[threads[t].req.file_id].data_hash,
                              threshold_of(threads[t].req),
                              smoothing_of(threads[t].req))].mesh.mesh_data,
                          processing_cache.mesh[cache_key(
                              uploaded_files[threads[t].req.file_id].data_hash,
                              threshold_of(threads[t].req),
                              smoothing_of(threads[t].req))].mesh.mesh_stats))
       ELSE goto(t, "generate", EmptyDict)
    /\ cache_lock' = 0
    /\ UNCHANGED <<call, users, now, uploaded_files, processing_cache, resp, history_vars>>

mesh_generated(t, file_data, caching, mesh) ==
    IF IsNone(mesh) THEN finish(t, [op |-> "get_mesh", status |-> 400])
    ELSE IF caching
    THEN goto(t, "acquire",
              [then |-> "cache_put",
               mesh_data |-> prepare_mesh_for_frontend(mesh.vertices, mesh.faces, file_data.nii_img),
               mesh_stats |-> mesh.mesh_stats])
    ELSE finish(t, mesh_response(threads[t].req.file_id, file_data, FALSE, FALSE,
                                 use_cache_of(threads[t].req), threshold_of(threads[t].req),
                                 smoothing_of(threads[t].req),
                                 prepare_mesh_for_frontend(mesh.vertices, mesh.faces,
                                                           file_data.nii_img),
                                 mesh.mesh_stats))

\* generate_mesh_from_data and prepare_mesh_for_frontend, outside the lock
mesh_generate(t) ==
    /\ at(t, "generate", "get_mesh")
    /\ mesh_generated(t, uploaded_files[threads[t].req.file_id],
                      /\ use_cache_of(threads[t].req)
                      /\ Get(uploaded_files[threads[t].req.file_id], "data_hash", 0) # 0,
                      generate_mesh_from_data(volume_data(uploaded_files[threads[t].req.file_id]),
                                              threshold_of(threads[t].req),
                                              smoothing_of(threads[t].req)))
    /\ UNCHANGED <<call, users, now, uploaded_files, processing_cache, resp, history_vars, cache_lock>>

\* the store into the cache, inside the lock
cache_put(t) ==
    /\ at(t, "cache_put", "get_mesh")
    /\ processing_cache' =
         [processing_cache EXCEPT !.mesh =
            Put(@, cache_key(uploaded_files[threads[t].req.file_id].data_hash,
                             threshold_of(threads[t].req), smoothing_of(threads[t].req)),
                [mesh |-> [mesh_data |-> threads[t].mesh_data,
                           mesh_stats |-> threads[t].mesh_stats]])]
    /\ cache_lock' = 0
    /\ finish(t, mesh_response(threads[t].req.file_id, uploaded_files[threads[t].req.file_id],
                               FALSE, FALSE, TRUE, threshold_of(threads[t].req),
                               smoothing_of(threads[t].req), threads[t].mesh_data,
                               threads[t].mesh_stats))
    /\ UNCHANGED <<call, users, now, uploaded_files, resp, history_vars>>

\* 'normalized_lesion_coordinates' in file_data and file_data.get('lesion_transform_applied')
lesion_check(t) ==
    /\ at(t, "lesion_check", "get_mesh")
    /\ IF serves_transformed(uploaded_files[threads[t].req.file_id])
       THEN goto(t, "lesion_read", [k |-> 1, seen |-> EmptyDict])
       ELSE finish(t, lesion_original_reply(threads[t].req.file_id,
                        argwhere_positive(volume_data(uploaded_files[threads[t].req.file_id])),
                        get_zooms(uploaded_files[threads[t].req.file_id].nii_img)))
    /\ UNCHANGED <<call, users, now, uploaded_files, processing_cache, resp, history_vars, cache_lock>>

lesion_read_field(t, seen) ==
    IF threads[t].k < Len(LesionReads)
    THEN goto(t, "lesion_read", [k |-> threads[t].k + 1, seen |-> seen])
    ELSE finish(t, lesion_transformed_reply(threads[t].req.file_id, seen))

\* one of the three reads of the lesion file's dictionary
lesion_read(t) ==
    /\ at(t, "lesion_read", "get_mesh")
    /\ lesion_read_field(t, read_field(uploaded_files[threads[t].req.file_id], threads[t].seen,
                                       LesionReads[threads[t].k]))
    /\ UNCHANGED <<call, users, now, uploaded_files, processing_cache, resp, history_vars, cache_lock>>

(***************************************************************************)
(* upload_file and clear_cache, step by step                               *)
(***************************************************************************)
upload_allowed(t, user_id, f, verdict) ==
    IF ~verdict.ok
    THEN /\ users' = [users EXCEPT ![user_id] = verdict.user]
         /\ finish(t, [op |-> "upload", status |-> 403])
    ELSE /\ users' = [users EXCEPT ![user_id] = increment_upload_count(verdict.user)]
         /\ goto(t, "acquire",
                 [then |-> "register", filename |-> file_name(user_id, now, f.filename),
                  data_hash |-> py_hash(tobytes(f.data))])

\* can_upload, the file name, increment_upload_count and the fingerprint
upload_begin(t) ==
    /\ at(t, "start", "upload")
    /\ upload_allowed(t, threads[t].req.user_id, threads[t].req.f,
                      can_upload(users[threads[t].req.user_id], now))
    /\ UNCHANGED <<call, now, uploaded_files, processing_cache, resp, history_vars, cache_lock>>

\* uploaded_files[filename] = {...}, inside the lock
upload_register(t) ==
    /\ at(t, "register", "upload")
    /\ uploaded_files' = Put(uploaded_files, threads[t].filename,
                             upload_entry(threads[t].req.f, threads[t].filename,
                                          threads[t].data_hash, threads[t].req.user_id))
    /\ goto(t, "cache_data", EmptyDict)
    /\ UNCHANGED <<call, users, now, processing_cache, resp, history_vars, cache_lock>>

\* processing_cache[data_hash] = {'data': data}, and the end of the block
upload_cache_data(t) ==
    /\ at(t, "cache_data", "upload")
    /\ processing_cache' = [processing_cache EXCEPT !.data =
                              Put(@, threads[t].data_hash, [data |-> threads[t].req.f.data])]
    /\ cache_lock' = 0
    /\ finish(t, [op |-> "upload", status |-> 200, file_id |-> threads[t].filename])
    /\ UNCHANGED <<call, users, now, uploaded_files, resp, history_vars>>

\* processing_cache.clear(), inside the lock
cache_clear(t) ==
    /\ at(t, "clear", "clear_cache")
    /\ processing_cache' = [data |-> EmptyDict, mesh |-> EmptyDict]
    /\ cache_lock' = 0
    /\ finish(t, [op |-> "clear_cache", status |-> 200])
    /\ UNCHANGED <<call, users, now, uploaded_files, resp, history_vars>>

\* two requests arrive together at a service that holds the doctor's mask
\* and scan, the scan normalized, and the administrator's copy of the scan
InitConc ==
    /\ users = [u \in UserIds |->
                  IF u = AdminId
                  THEN [role |-> "admin", status |-> "approved", trial_uploads_count |-> 0,
                        trial_ends_at |-> TrialPeriod]
                  ELSE [role |-> "doctor", status |-> "pending",
                        trial_uploads_count |-> TrialMaxUploads, trial_ends_at |-> TrialPeriod]]
    /\ now = ConcNow
    /\ uploaded_files = ConcRegistry
    /\ processing_cache = [data |-> [h \in {py_hash(tobytes(LesionMask.data)),
                                            py_hash(tobytes(BrainData))} |->
                                       IF h = py_hash(tobytes(BrainData))
                                       THEN [data |-> BrainData]
                                       ELSE [data |-> LesionMask.data]],
                           mesh |-> EmptyDict]
    /\ resp = [op |-> "none"]
    /\ produced_by = EmptyDict
    /\ served = [op |-> "none"]
    /\ earlier = [op |-> "none"]
    /\ call = [op |-> "none", done |-> TRUE]
    /\ cache_lock = 0
    /\ threads \in [Threads -> {arrived(req) : req \in ConcRequests}]

NextConc ==
    \E t \in Threads :
      \/ lock_acquire(t)
      \/ normalize_begin(t)
      \/ normalize_store_field(t)
      \/ normalize_iterate(t)
      \/ normalize_next(t)
      \/ normalize_store_lesion_field(t)
      \/ mesh_begin(t)
      \/ mesh_check(t)
      \/ mesh_read(t)
      \/ cache_get(t)
      \/ mesh_generate(t)
      \/ cache_put(t)
      \/ lesion_check(t)
      \/ lesion_read(t)
      \/ upload_begin(t)
      \/ upload_register(t)
      \/ upload_cache_data(t)
      \/ cache_clear(t)

SpecConc == InitConc /\ [][NextConc]_vars

(***************************************************************************)
(* The lock: every request that takes it, the statistics included, with    *)
(* threads that keep running                                               *)
(***************************************************************************)
\* len(processing_cache), inside the lock
stats_read(t) ==
    /\ at(t, "stats", "stats")
    /\ cache_lock' = 0
    /\ goto(t, "stats_files",
            [cache_entries |-> Cardinality(DOMAIN processing_cache.data)
                               + Cardinality(DOMAIN processing_cache.mesh)])
    /\ UNCHANGED <<call, users, now, uploaded_files, processing_cache, resp, history_vars>>

\* len(uploaded_files), after the block
stats_reply(t) ==
    /\ at(t, "stats_files", "stats")
    /\ finish(t, [op |-> "stats", status |-> 200, cache_entries |-> threads[t].cache_entries,
                  loaded_files |-> Cardinality(DOMAIN uploaded_files)])
    /\ UNCHANGED <<call, users, now, uploaded_files, processing_cache, resp, history_vars, cache_lock>>

LockRequests ==
    {req \in ConcRequests : req.op = "normalize" => "params" \in DOMAIN req.body}
      \cup {[op |-> "stats", user_id |-> DoctorId]}

ThreadStep(t) ==
    \/ lock_acquire(t)
    \/ normalize_begin(t)
    \/ normalize_store_field(t)
    \/ normalize_iterate(t)
    \/ normalize_next(t)
    \/ normalize_store_lesion_field(t)
    \/ mesh_begin(t)
    \/ mesh_check(t)
    \/ mesh_read(t)
    \/ cache_get(t)
    \/ mesh_generate(t)
    \/ cache_put(t)
    \/ lesion_check(t)
    \/ lesion_read(t)
    \/ upload_begin(t)
    \/ upload_register(t)
    \/ upload_cache_data(t)
    \/ cache_clear(t)
    \/ stats_read(t)
    \/ stats_reply(t)

InitLock ==
    /\ users = [u \in UserIds |->
                  IF u = AdminId
                  THEN [role |-> "admin", status |-> "approved", trial_uploads_count |-> 0,
                        trial_ends_at |-> TrialPeriod]
                  ELSE [role |-> "doctor", status |-> "pending",
                        trial_uploads_count |-> TrialMaxUploads, trial_ends_at |-> TrialPeriod]]
    /\ now = ConcNow
    /\ uploaded_files = ConcRegistry
    /\ processing_cache = [data |-> [h \in {py_hash(tobytes(LesionMask.data)),
                                            py_hash(tobytes(BrainData))} |->
                                       IF h = py_hash(tobytes(BrainData))
                                       THEN [data |-> BrainData]
                                       ELSE [data |-> LesionMask.data]],
                           mesh |-> EmptyDict]
    /\ resp = [op |-> "none"]
    /\ produced_by = EmptyDict
    /\ served = [op |-> "none"]
    /\ earlier = [op |-> "none"]
    /\ call = [op |-> "none", done |-> TRUE]
    /\ cache_lock = 0
    /\ threads \in [Threads -> {arrived(req) : req \in LockRequests}]

NextLock == \E t \in Threads : ThreadStep(t)

\* the steps inside a block
LockedStep(t) ==
    \/ cache_get(t)
    \/ cache_put(t)
    \/ upload_register(t)
    \/ upload_cache_data(t)
    \/ cache_clear(t)
    \/ stats_read(t)

\* a thread inside a block runs on to the end of the block, and a thread
\* blocked on a lock that stays free takes it
LockFairness == \A t \in Threads : WF_vars(LockedStep(t)) /\ WF_vars(lock_acquire(t))

SpecLock == InitLock /\ [][NextLock]_vars /\ LockFairness

(***************************************************************************)
(* Uploads of a trial account, step by step.  Each request works on the    *)
(* row of the user its own database session loaded (User.query.get); a     *)
(* commit writes the attributes the request changed                        *)
(***************************************************************************)
\* requests each thread sends after its first one
MoreUploads == 1

TrialRequests == {[op |-> "upload", user_id |-> DoctorId, f |-> LesionMask]}

\* history: the uploads answered 200 so far, and whether the account was approved
trial_history(n, approved) == [op |-> "trial", n |-> n, approved |-> approved]

\* the replies with status 200 that the threads hold
answered_ok ==
    Cardinality({t \in Threads : threads[t].pc = "done" /\ threads[t].reply.status = 200})

\* user = User.query.get(user_id)
trial_load(t) ==
    /\ at(t, "start", "upload")
    /\ goto(t, "check",
            [user |-> users[threads[t].req.user_id],
             late |-> ~served.approved /\ served.n + answered_ok >= TrialMaxUploads])
    /\ UNCHANGED <<call, users, now, uploaded_files, processing_cache, resp, history_vars, cache_lock>>

\* db.session.commit() of a request that changed status on its row
commit_status(user_id, row, changed) ==
    users' = [users EXCEPT ![user_id] =
                [@ EXCEPT !.status = IF changed.status # row.status THEN changed.status ELSE @]]

\* can_upload() and the file name
trial_checked(t, user_id, f, verdict) ==
    IF ~verdict.ok
    THEN /\ commit_status(user_id, threads[t].user, verdict.user)
         /\ finish(t, [op |-> "upload", status |-> 403])
    ELSE /\ UNCHANGED users
         /\ goto(t, "count", [filename |-> file_name(user_id, now, f.filename),
                              data_hash |-> py_hash(tobytes(f.data))])

trial_check(t) ==
    /\ at(t, "check", "upload")
    /\ trial_checked(t, threads[t].req.user_id, threads[t].req.f, can_upload(threads[t].user, now))
    /\ UNCHANGED <<call, now, uploaded_files, processing_cache, resp, history_vars, cache_lock>>

\* db.session.commit() of increment_upload_count
commit_count(user_id, row, changed) ==
    users' = [users EXCEPT ![user_id] =
                [@ EXCEPT !.trial_uploads_count =
                              IF changed.trial_uploads_count # row.trial_uploads_count
                              THEN changed.trial_uploads_count ELSE @,
                          !.status = IF changed.status # row.status THEN changed.status ELSE @]]

\* user.increment_upload_count()
trial_count(t) ==
    /\ at(t, "count", "upload")
    /\ commit_count(threads[t].req.user_id, threads[t].user, increment_upload_count(threads[t].user))
    /\ goto(t, "acquire", [then |-> "register"])
    /\ UNCHANGED <<call, now, uploaded_files, processing_cache, resp, history_vars, cache_lock>>

trial_lock(t) == lock_acquire(t)

trial_register(t) == upload_register(t)

trial_cache_data(t) == upload_cache_data(t)

\* the client sends its next upload
trial_again(t) ==
    /\ threads[t].pc = "done"
    /\ threads[t].left > 0
    /\ served' = trial_history(served.n + (IF threads[t].reply.status = 200 THEN 1 ELSE 0),
                               served.approved)
    /\ \E req \in TrialRequests :
         threads' = [threads EXCEPT ![t] = [pc |-> "start", req |-> req, left |-> threads[t].left - 1]]
    /\ UNCHANGED <<call, users, now, uploaded_files, processing_cache, resp, produced_by, earlier, cache_lock>>

\* approve_user: user.approve(admin_id) and the commit
approve_user ==
    /\ ~served.approved
    /\ users' = [users EXCEPT ![DoctorId] = [@ EXCEPT !.status = "approved"]]
    /\ served' = trial_history(served.n, TRUE)
    /\ UNCHANGED <<call, now, uploaded_files, processing_cache, resp, produced_by, earlier, threads, cache_lock>>

InitTrial ==
    /\ users = [u \in UserIds |->
                  IF u = AdminId
                  THEN [role |-> "admin", status |-> "approved", trial_uploads_count |-> 0,
                        trial_ends_at |-> TrialPeriod]
                  ELSE [role |-> "doctor", status |-> "trial", trial_uploads_count |-> 0,
                        trial_ends_at |-> TrialPeriod]]
    /\ now = 0
    /\ uploaded_files = EmptyDict
    /\ processing_cache = [data |-> EmptyDict, mesh |-> EmptyDict]
    /\ resp = [op |-> "none"]
    /\ produced_by = EmptyDict
    /\ served = trial_history(0, FALSE)
    /\ earlier = [op |-> "none"]
    /\ call = [op |-> "none", done |-> TRUE]
    /\ cache_lock = 0
    /\ threads \in [Threads -> {[pc |-> "start", req |-> req, left |-> MoreUploads] :
                                  req \in TrialRequests}]

NextTrial ==
    \/ \E t \in Threads :
         \/ trial_load(t)
         \/ trial_check(t)
         \/ trial_count(t)
         \/ trial_lock(t)
         \/ trial_register(t)
         \/ trial_cache_data(t)
         \/ trial_again(t)
    \/ approve_user

SpecTrial == InitTrial /\ [][NextTrial]_vars

(***************************************************************************)
(* The file endpoints under requests of the owner, of another doctor and   *)
(* of the administrator                                                    *)
(***************************************************************************)
\* a second doctor, who uploads nothing
ColleagueId == DoctorId + 1

AccessUserIds == UserIds \cup {ColleagueId}

AccessUploaders == {AdminId, DoctorId}

AccessUploads == {f \in Uploads : get_zooms(f.nii_img) = <<2, 1, 3>>}

AccessFileIds == {file_name(u, 0, "scan.nii") : u \in AccessUploaders}

\* ?format= of export/mesh: the default and a format no exporter knows
ExportFormats == {"stl", "step"}

\* log_activity(user_id, action, ...) of a request that went through
logged(reply, action) == [x \in DOMAIN reply \cup {"activity"} |-> IF x = "activity" THEN action ELSE reply[x]]

tissue_voxels(data) == Cardinality({x \in Indices(data.shape) : data.vals[x] # 0})

analysis_stats(file_data, data) ==
    [total_voxels |-> Cardinality(Indices(data.shape)),
     tissue_voxels |-> tissue_voxels(data),
     background_voxels |-> Cardinality(Indices(data.shape)) - tissue_voxels(data),
     applied |-> "normalization_method" \in DOMAIN file_data]

analysis_route(user_id, file_id) ==
    /\ resp' = IF ~check_file_access(file_id, user_id) THEN [op |-> "analysis", status |-> 403]
               ELSE IF file_id \notin DOMAIN uploaded_files
               THEN [op |-> "analysis", status |-> 404, available_files |-> DOMAIN uploaded_files]
               ELSE logged([op |-> "analysis", status |-> 200,
                            analysis |-> analysis_stats(uploaded_files[file_id],
                                                        volume_data(uploaded_files[file_id])),
                            file_info |-> uploaded_files[file_id].info], "ANALYSIS")
    /\ UNCHANGED <<call, users, now, uploaded_files, processing_cache>>

export_as(vertices, faces, format_type) ==
    IF format_type \in {"stl", "obj", "ply", "glb"}
    THEN logged([op |-> "export_mesh", status |-> 200, vertices |-> vertices, faces |-> faces,
                 format |-> format_type], "MESH_EXPORT")
    ELSE [op |-> "export_mesh", status |-> 400, error |-> "Unsupported format"]

export_generated(file_data, mesh, format_type) ==
    IF IsNone(mesh)
    THEN [op |-> "export_mesh", status |-> 400, error |-> "Could not generate mesh for export"]
    ELSE export_as(scale_by_zooms(mesh.vertices, get_zooms(file_data.nii_img)), mesh.faces,
                   format_type)

export_of(file_data, use_normalized, threshold, smoothing, format_type) ==
    IF use_normalized /\ "normalized_mesh_data" \in DOMAIN file_data
    THEN export_as(file_data.normalized_mesh_data.vertices,
                   file_data.normalized_mesh_data.faces, format_type)
    ELSE export_generated(file_data,
                          generate_mesh_from_data(volume_data(file_data), threshold, smoothing),
                          format_type)

export_mesh(user_id, file_id, query) ==
    /\ resp' = IF ~check_file_access(file_id, user_id) THEN [op |-> "export_mesh", status |-> 403]
               ELSE IF file_id \notin DOMAIN uploaded_files
               THEN [op |-> "export_mesh", status |-> 404]
               ELSE export_of(uploaded_files[file_id], Get(query, "use_normalized", TRUE),
                              Get(query, "threshold", Rat(1, 10)), Get(query, "smoothing", I(1)),
                              Get(query, "format", "stl"))
    /\ UNCHANGED <<call, users, now, uploaded_files, processing_cache>>

\* the volume that is written out, with the name it is sent under
export_volume(user_id, file_id) ==
    /\ resp' = IF ~check_file_access(file_id, user_id)
               THEN [op |-> "export_volume", status |-> 403]
               ELSE IF file_id \notin DOMAIN uploaded_files
               THEN [op |-> "export_volume", status |-> 404]
               ELSE logged([op |-> "export_volume", status |-> 200,
                            data |-> volume_data(uploaded_files[file_id]),
                            download_name |-> <<uploaded_files[file_id].info.filename,
                                                 Get(uploaded_files[file_id],
                                                     "normalization_method", "original")>>],
                           "VOLUME_EXPORT")
    /\ UNCHANGED <<call, users, now, uploaded_files, processing_cache>>

\* one line of the listing; an administrator also reads the owner
file_list_entry(file_id, file_data, with_owner) ==
    IF with_owner
    THEN [file_id |-> file_id, filename |-> file_data.info.filename,
          shape |-> file_data.info.shape, file_type |-> file_data.info.file_type,
          mesh_normalized |-> "mesh_normalization_method" \in DOMAIN file_data,
          user_id |-> file_data.user_id]
    ELSE [file_id |-> file_id, filename |-> file_data.info.filename,
          shape |-> file_data.info.shape, file_type |-> file_data.info.file_type,
          mesh_normalized |-> "mesh_normalization_method" \in DOMAIN file_data]

files_route(user_id) ==
    /\ resp' = [op |-> "files", status |-> 200,
                files |-> IF user_id \in DOMAIN users /\ users[user_id].role = "admin"
                          THEN {file_list_entry(id, uploaded_files[id], TRUE) :
                                  id \in DOMAIN uploaded_files}
                          ELSE {file_list_entry(id, uploaded_files[id], FALSE) :
                                  id \in {x \in DOMAIN uploaded_files :
                                            uploaded_files[x].user_id = user_id}}]
    /\ UNCHANGED <<call, users, now, uploaded_files, processing_cache>>

\* history: the request that was answered last
access_request(op, user_id, file_id) == [op |-> op, user_id |-> user_id, file_id |-> file_id]

AccessUpload ==
    /\ \E user_id \in AccessUploaders, f \in AccessUploads :
         /\ upload_file(user_id, f)
         /\ served' = access_request("upload", user_id, file_name(user_id, now, f.filename))
    /\ UNCHANGED <<produced_by, earlier, conc_vars>>

\* request bodies: defaults, an unknown method, a threshold no voxel exceeds
AccessNormalizeRequests ==
    {EmptyDict, [method |-> "cylindrical"], [params |-> [threshold |-> I(1)]]}

\* the registered ids and one under which nothing is ever registered
AccessRequestedIds == AccessFileIds \cup {file_name(ColleagueId, 0, "scan.nii")}

AccessNormalize ==
    /\ \E user_id \in AccessUserIds, file_id \in AccessRequestedIds, request \in AccessNormalizeRequests :
         /\ normalize_mesh(user_id, file_id, request)
         /\ served' = access_request("normalize", user_id, file_id)
    /\ UNCHANGED <<produced_by, earlier, conc_vars>>

AccessGetMesh ==
    /\ \E user_id \in AccessUserIds, file_id \in AccessFileIds :
         /\ get_mesh(user_id, file_id, EmptyDict)
         /\ served' = access_request("get_mesh", user_id, file_id)
    /\ UNCHANGED <<produced_by, earlier, conc_vars>>

AccessGetSlice ==
    /\ \E user_id \in AccessUserIds, file_id \in AccessFileIds :
         /\ get_slice(user_id, file_id, "axial", 0)
         /\ served' = access_request("get_slice", user_id, file_id)
    /\ UNCHANGED <<produced_by, earlier, conc_vars>>

AccessAnalysis ==
    /\ \E user_id \in AccessUserIds, file_id \in AccessFileIds :
         /\ analysis_route(user_id, file_id)
         /\ served' = access_request("analysis", user_id, file_id)
    /\ UNCHANGED <<produced_by, earlier, conc_vars>>

AccessExportMesh ==
    /\ \E user_id \in AccessUserIds, file_id \in AccessFileIds, format_type \in ExportFormats :
         /\ export_mesh(user_id, file_id, [format |-> format_type])
         /\ served' = access_request("export_mesh", user_id, file_id)
    /\ UNCHANGED <<produced_by, earlier, conc_vars>>

AccessExportVolume ==
    /\ \E user_id \in AccessUserIds, file_id \in AccessFileIds :
         /\ export_volume(user_id, file_id)
         /\ served' = access_request("export_volume", user_id, file_id)
    /\ UNCHANGED <<produced_by, earlier, conc_vars>>

AccessFiles ==
    /\ \E user_id \in AccessUserIds :
         /\ files_route(user_id)
         /\ served' = access_request("files", user_id, None)
    /\ UNCHANGED <<produced_by, earlier, conc_vars>>

\* the service with the administrator, the doctor on trial and an approved colleague
InitAccess ==
    /\ users = [u \in AccessUserIds |->
                  IF u = AdminId
                  THEN [role |-> "admin", status |-> "approved", trial_uploads_count |-> 0,
                        trial_ends_at |-> TrialPeriod]
                  ELSE IF u = DoctorId
                  THEN [role |-> "doctor", status |-> "trial", trial_uploads_count |-> 0,
                        trial_ends_at |-> TrialPeriod]
                  ELSE [role |-> "doctor", status |-> "approved", trial_uploads_count |-> 0,
                        trial_ends_at |-> TrialPeriod]]
    /\ now = 0
    /\ uploaded_files = EmptyDict
    /\ processing_cache = [data |-> EmptyDict, mesh |-> EmptyDict]
    /\ resp = [op |-> "none"]
    /\ produced_by = EmptyDict
    /\ served = [op |-> "none"]
    /\ earlier = [op |-> "none"]
    /\ threads = EmptyDict
    /\ cache_lock = 0
    /\ call = [op |-> "none", done |-> TRUE]

NextAccess ==
    \/ AccessUpload
    \/ AccessNormalize
    \/ AccessGetMesh
    \/ AccessGetSlice
    \/ AccessAnalysis
    \/ AccessExportMesh
    \/ AccessExportVolume
    \/ AccessFiles

SpecAccess == InitAccess /\ [][NextAccess]_vars

(***************************************************************************)
(* One subject: a scan and its mask, normalized and viewed                 *)
(***************************************************************************)
\* a mask on the grid of the scan, with a voxel on a corner of the scan's surface
CornerLesionData ==
    [shape |-> <<5, 5, 5>>,
     vals |-> [x \in Indices(<<5, 5, 5>>) |-> IF x \in {<<4, 4, 4>>, <<4, 0, 0>>} THEN 1 ELSE 0]]

SubjectUploads ==
    {[filename |-> "scan.nii", type |-> "brain", data |-> BrainData,
      nii_img |-> [zooms |-> <<2, 1, 3>>]],
     [filename |-> "lesion.nii", type |-> "lesion", data |-> CornerLesionData,
      nii_img |-> [zooms |-> <<2, 1, 3>>]]}

SubjectScan == file_name(AdminId, 0, "scan.nii")

SubjectLesion == file_name(AdminId, 0, "lesion.nii")

\* every method with every combination of its parameters
SubjectRequests == UNION {{[method |-> m, params |-> p] : p \in ParamsOf(m)} : m \in Methods}

SubjectQueries == {EmptyDict, [use_normalized |-> FALSE]}

\* history: the replies to the viewer since the registry last changed
NothingViewed == [op |-> "none"]

viewed(reply) ==
    IF reply.status # 200 THEN served
    ELSE IF reply.data_type = "mesh" THEN Put(served, "mesh", reply)
    ELSE Put(served, "lesion", reply)

SubjectUpload ==
    /\ \E f \in SubjectUploads : upload_checked(AdminId, f, can_upload(users[AdminId], now))
    /\ served' = NothingViewed
    /\ UNCHANGED <<call, now, produced_by, earlier, conc_vars>>

SubjectNormalize ==
    /\ \E file_id \in {SubjectScan, SubjectLesion}, request \in SubjectRequests :
         normalize_mesh(AdminId, file_id, request)
    /\ served' = IF resp'.status = 200 THEN NothingViewed ELSE served
    /\ UNCHANGED <<produced_by, earlier, conc_vars>>

SubjectGetMesh ==
    /\ \E file_id \in {SubjectScan, SubjectLesion}, query \in SubjectQueries :
         get_mesh(AdminId, file_id, query)
    /\ served' = viewed(resp')
    /\ UNCHANGED <<produced_by, earlier, conc_vars>>

InitSubject ==
    /\ InitRegistry
    /\ call = [op |-> "none", done |-> TRUE]

NextSubject == SubjectUpload \/ SubjectNormalize \/ SubjectGetMesh

SpecSubject == InitSubject /\ [][NextSubject]_vars

(***************************************************************************)
(* Accounts: login, upload, request-approval, approve and reject, one      *)
(* request at a time                                                       *)
(***************************************************************************)
AccountUserIds == {AdminId, DoctorId, ColleagueId}

AccountDoctors == {DoctorId, ColleagueId}

AccountScan == CHOOSE f \in AccessUploads : f.filename = "scan.nii"

account_request(op, user_id, target) == [op |-> op, user_id |-> user_id, target |-> target]

\* check_user_access: the verdict and the user row it leaves behind
check_user_access(user, t) ==
    IF user.role = "admin" THEN [ok |-> TRUE, user |-> user]
    ELSE IF user.status = "approved" THEN [ok |-> TRUE, user |-> user]
    ELSE IF user.status = "trial"
    THEN IF is_trial_active(user, t) THEN [ok |-> TRUE, user |-> user]
         ELSE [ok |-> FALSE, user |-> [user EXCEPT !.status = "pending"]]
    ELSE [ok |-> FALSE, user |-> user]

\* User.uploads_remaining
uploads_remaining(user) ==
    IF user.status = "approved" \/ user.role = "admin" THEN -1
    ELSE IF user.status = "trial"
    THEN IF TrialMaxUploads - user.trial_uploads_count > 0
         THEN TrialMaxUploads - user.trial_uploads_count ELSE 0
    ELSE 0

\* User.to_dict evaluates can_upload, which commits a suspension
to_dict(user, t) == can_upload(user, t).user

login_checked(user_id, access) ==
    IF ~access.ok
    THEN /\ users' = [users EXCEPT ![user_id] = to_dict(access.user, now)]
         /\ resp' = [op |-> "login", status |-> 403, user_status |-> access.user.status]
    ELSE /\ users' = [users EXCEPT ![user_id] = to_dict(access.user, now)]
         /\ resp' = [op |-> "login", status |-> 200, user_status |-> access.user.status]

login(user_id, password_ok) ==
    /\ IF ~password_ok
       THEN /\ resp' = [op |-> "login", status |-> 401]
            /\ UNCHANGED users
       ELSE login_checked(user_id, check_user_access(users[user_id], now))
    /\ UNCHANGED <<call, now, uploaded_files, processing_cache>>

request_approval(user_id) ==
    /\ IF /\ users[user_id].status = "trial"
          /\ \/ ~is_trial_active(users[user_id], now)
             \/ uploads_remaining(users[user_id]) = 0
       THEN /\ users' = [users EXCEPT ![user_id] = to_dict([@ EXCEPT !.status = "pending"], now)]
            /\ resp' = [op |-> "request_approval", status |-> 200]
       ELSE /\ resp' = [op |-> "request_approval", status |-> 400]
            /\ UNCHANGED users
    /\ UNCHANGED <<call, now, uploaded_files, processing_cache>>

\* variant: approve without the test of the user's status
approve_user_unguarded(admin_id, user_id) ==
    /\ IF users[admin_id].role # "admin"
       THEN /\ resp' = [op |-> "approve", status |-> 403]
            /\ UNCHANGED users
       ELSE /\ users' = [users EXCEPT ![user_id] = to_dict([@ EXCEPT !.status = "approved"], now)]
            /\ resp' = [op |-> "approve", status |-> 200]
    /\ UNCHANGED <<call, now, uploaded_files, processing_cache>>

\* the approve route, from the caller's role to the committed row
approve_user_by(admin_id, user_id) ==
    /\ IF users[admin_id].role # "admin"
       THEN /\ resp' = [op |-> "approve", status |-> 403]
            /\ UNCHANGED users
       ELSE IF users[user_id].status \notin {"trial", "pending", "suspended"}
       THEN /\ resp' = [op |-> "approve", status |-> 400]
            /\ UNCHANGED users
       ELSE /\ users' = [users EXCEPT ![user_id] = to_dict([@ EXCEPT !.status = "approved"], now)]
            /\ resp' = [op |-> "approve", status |-> 200]
    /\ UNCHANGED <<call, now, uploaded_files, processing_cache>>

reject_user(admin_id, user_id) ==
    /\ IF users[admin_id].role # "admin"
       THEN /\ resp' = [op |-> "reject", status |-> 403]
            /\ UNCHANGED users
       ELSE /\ users' = [users EXCEPT ![user_id] = [@ EXCEPT !.status = "rejected"]]
            /\ resp' = [op |-> "reject", status |-> 200]
    /\ UNCHANGED <<call, now, uploaded_files, processing_cache>>

AccountLogin ==
    /\ \E user_id \in AccountUserIds, password_ok \in BOOLEAN :
         /\ login(user_id, password_ok)
         /\ served' = account_request("login", user_id, user_id)
    /\ UNCHANGED <<produced_by, earlier, conc_vars>>

AccountUploadFile ==
    /\ \E user_id \in AccountUserIds :
         /\ upload_file(user_id, AccountScan)
         /\ served' = account_request("upload", user_id, user_id)
    /\ UNCHANGED <<produced_by, earlier, conc_vars>>

AccountRequestApproval ==
    /\ \E user_id \in AccountUserIds :
         /\ request_approval(user_id)
         /\ served' = account_request("request_approval", user_id, user_id)
    /\ UNCHANGED <<produced_by, earlier, conc_vars>>

AccountApprove ==
    /\ \E admin_id \in AccountUserIds, user_id \in AccountUserIds :
         /\ approve_user_by(admin_id, user_id)
         /\ served' = account_request("approve", admin_id, user_id)
    /\ UNCHANGED <<produced_by, earlier, conc_vars>>

AccountReject ==
    /\ \E admin_id \in AccountUserIds, user_id \in AccountUserIds :
         /\ reject_user(admin_id, user_id)
         /\ served' = account_request("reject", admin_id, user_id)
    /\ UNCHANGED <<produced_by, earlier, conc_vars>>

\* the first doctor's trial ends at MaxTime, the second doctor's later
InitAccount ==
    /\ users = [u \in AccountUserIds |->
                  IF u = AdminId
                  THEN [role |-> "admin", status |-> "approved", trial_uploads_count |-> 0,
                        trial_ends_at |-> TrialPeriod]
                  ELSE IF u = DoctorId
                  THEN [role |-> "doctor", status |-> "trial", trial_uploads_count |-> 0,
                        trial_ends_at |-> MaxTime]
                  ELSE [role |-> "doctor", status |-> "trial", trial_uploads_count |-> 0,
                        trial_ends_at |-> TrialPeriod]]
    /\ now = 0
    /\ uploaded_files = EmptyDict
    /\ processing_cache = [data |-> EmptyDict, mesh |-> EmptyDict]
    /\ resp = [op |-> "none"]
    /\ produced_by = EmptyDict
    /\ served = [op |-> "none"]
    /\ earlier = [op |-> "none"]
    /\ threads = EmptyDict
    /\ cache_lock = 0
    /\ call = [op |-> "none", done |-> TRUE]

NextAccount ==
    \/ AccountLogin
    \/ AccountUploadFile
    \/ AccountRequestApproval
    \/ AccountApprove
    \/ AccountReject
    \/ Tick

SpecAccount == InitAccount /\ [][NextAccount]_vars

(***************************************************************************)
(* The fallback ASCII triangle writer (create_simple_stl)                  *)
(***************************************************************************)
\* np.cross
np_cross(u, v) ==
    <<RSub(RMul(u[2], v[3]), RMul(u[3], v[2])),
      RSub(RMul(u[3], v[1]), RMul(u[1], v[3])),
      RSub(RMul(u[1], v[2]), RMul(u[2], v[1]))>>

\* variant: the cross product is written without being normalized
facet_normal_raw(normal, norm) == normal

\* normal / np.linalg.norm(normal) if np.linalg.norm(normal) > 0 else normal
facet_normal(normal, norm) == IF RLess(RZero, norm) THEN VDivS(normal, norm) ELSE normal

\* the seven lines written for one face
stl_facet_lines(v1, v2, v3, normal) ==
    <<[line |-> "facet normal", xyz |-> normal],
      [line |-> "outer loop"],
      [line |-> "vertex", xyz |-> v1],
      [line |-> "vertex", xyz |-> v2],
      [line |-> "vertex", xyz |-> v3],
      [line |-> "endloop"],
      [line |-> "endfacet"]>>

stl_facet_of(v1, v2, v3, cross) == stl_facet_lines(v1, v2, v3, facet_normal(cross, np_norm(cross)))

\* vertices[face[k]] with the zero-based index of Python
stl_facet(vertices, face) ==
    stl_facet_of(vertices[face[1] + 1], vertices[face[2] + 1], vertices[face[3] + 1],
                 np_cross(VSub(vertices[face[2] + 1], vertices[face[1] + 1]),
                          VSub(vertices[face[3] + 1], vertices[face[1] + 1])))

RECURSIVE stl_facets(_, _)
stl_facets(vertices, faces) ==
    IF Len(faces) = 0 THEN <<>>
    ELSE stl_facet(vertices, Head(faces)) \o stl_facets(vertices, Tail(faces))

create_simple_stl(vertices, faces) ==
    <<[line |-> "solid mesh"]>> \o stl_facets(vertices, faces) \o <<[line |-> "endsolid mesh"]>>

\* four vertices each; the third table has repeated and collinear points
StlVertexTables ==
    {<<Vec(0, 0, 0), Vec(1, 0, 0), Vec(0, 1, 0), Vec(0, 0, 1)>>,
     <<Vec(1, 2, 3), Vec(4, 2, 3), Vec(1, 6, 3), Vec(2, 2, 2)>>,
     <<Vec(0, 0, 0), Vec(1, 1, 1), Vec(2, 2, 2), Vec(0, 0, 0)>>}

StlFaceChoices ==
    {<<0, 1, 2>>, <<2, 1, 0>>, <<0, 1, 3>>, <<1, 2, 3>>, <<3, 2, 0>>, <<0, 0, 1>>, <<2, 2, 2>>}

MaxStlFaces == 2

StlFaceLists == UNION {[1..n -> StlFaceChoices] : n \in 0..MaxStlFaces}

InitStl ==
    /\ InitRegistry
    /\ \E vertices \in StlVertexTables, faces \in StlFaceLists :
         call = [op |-> "stl", done |-> FALSE, vertices |-> vertices, faces |-> faces]

StlCall ==
    /\ UNCHANGED registry_vars
    /\ call.op = "stl" /\ ~call.done
    /\ call' = [op |-> "stl", done |-> TRUE, vertices |-> call.vertices, faces |-> call.faces,
                result |-> create_simple_stl(call.vertices, call.faces)]

NextStl == StlCall

SpecStl == InitStl /\ [][NextStl]_vars

(***************************************************************************)
(* What one user sees of the files of the others                           *)
(***************************************************************************)
\* get_performance_stats: the sizes of the cache and of the registry
get_performance_stats(user_id) ==
    /\ resp' = [op |-> "stats", status |-> 200,
                cache_entries |-> Cardinality(DOMAIN processing_cache.data)
                                  + Cardinality(DOMAIN processing_cache.mesh),
                loaded_files |-> Cardinality(DOMAIN uploaded_files)]
    /\ UNCHANGED <<call, users, now, uploaded_files, processing_cache>>

\* the users whose replies are watched: the doctor and the colleague
Viewers == {DoctorId, ColleagueId}

\* the entries of the registry that belong to user_id
OwnFiles(user_id) ==
    [id \in {x \in DOMAIN uploaded_files : uploaded_files[x].user_id = user_id} |->
       uploaded_files[id]]

\* history: one earlier request of a viewer, the viewer's own files at that
\* time and the reply
view_remembered(request, own, reply) ==
    {earlier, [op |-> "view", request |-> request, own |-> own, reply |-> reply]}

ViewUpload ==
    /\ \E user_id \in AccessUploaders, f \in AccessUploads :
         /\ upload_file(user_id, f)
         /\ served' = access_request("upload", user_id, file_name(user_id, now, f.filename))
    /\ UNCHANGED <<produced_by, earlier, conc_vars>>

ViewAnalysis ==
    /\ \E user_id \in Viewers, file_id \in AccessRequestedIds :
         /\ analysis_route(user_id, file_id)
         /\ served' = access_request("analysis", user_id, file_id)
         /\ earlier' \in view_remembered(served', OwnFiles(user_id), resp')
    /\ UNCHANGED <<produced_by, conc_vars>>

ViewStats ==
    /\ \E user_id \in Viewers :
         /\ get_performance_stats(user_id)
         /\ served' = access_request("stats", user_id, None)
         /\ earlier' \in view_remembered(served', OwnFiles(user_id), resp')
    /\ UNCHANGED <<produced_by, conc_vars>>

InitView == InitAccess

NextView == ViewUpload \/ ViewAnalysis \/ ViewStats

SpecView == InitView /\ [][NextView]_vars

(***************************************************************************)
(* Propagation and replay (pure functions)                                 *)
(***************************************************************************)
Propagated == call.op = "propagate" /\ call.done

Normalized == call.op = "normalize" /\ call.done

SignificantVoxels(data) == {x \in Indices(data.shape) : data.vals[x] > 0}

\* what propagation must return for one companion
PropagationExact(lesion, result) ==
    IF SignificantVoxels(lesion.data) = {} THEN IsNone(result)
    ELSE /\ ~IsNone(result)
         /\ {result.voxel_indices[n] : n \in 1..Len(result.voxel_indices)}
              = SignificantVoxels(lesion.data)
         /\ Len(result.coordinates) = Len(result.voxel_indices)
         /\ \A n \in 1..Len(result.voxel_indices) :
              result.coordinates[n] =
                Replay(VMul(ToVec(result.voxel_indices[n]), ToVec(lesion.nii_img.zooms)),
                       call.method, call.transform_info)

ExampleRecord(method, info) ==
    /\ method = "cartesian"
    /\ info.original_centroid = Vec(25, 10, 5)
    /\ info.scale_factor = Scalar(I(2))
    /\ info.final_centroid = VZero

\* C1: propagate returns, for every significant voxel (i,j,k) of the
\* companion, ((i,j,k) * companion spacing - reference_center) * scale +
\* destination_center, for scalar, per-axis and spherical records alike, using
\* the companion's own spacing; the record (25,10,5), 2, (0,0,0) maps index
\* (2,3,4) at spacing (1,1,1) to (-46,-14,-2).
C1_PropagateExact ==
    Propagated =>
      /\ PropagationExact(call.lesion_a, call.result_a)
      /\ PropagationExact(call.lesion_b, call.result_b)
      /\ ( /\ ExampleRecord(call.method, call.transform_info)
           /\ call.lesion_a = [data |-> ExampleLesionData, nii_img |-> [zooms |-> <<1, 1, 1>>]] )
         => call.result_a.coordinates = <<Vec(-46, -14, -2)>>

C1_Witness ==
    /\ Propagated
    /\ ExampleRecord(call.method, call.transform_info)
    /\ call.lesion_a = [data |-> ExampleLesionData, nii_img |-> [zooms |-> <<1, 1, 1>>]]
    /\ call.brain_zooms # <<1, 1, 1>>
    /\ call.result_a.coordinates = <<Vec(-46, -14, -2)>>

ReplayOnVertices ==
    IF call.method = "cartesian"
    THEN apply_cartesian_transform_to_coordinates(call.vertices, call.transform_info)
    ELSE apply_spherical_transform_to_coordinates(call.vertices, call.transform_info)

\* C2: replaying the record returned by normalize on the input vertices
\* yields the normalized vertices, for both methods and every parameter
\* combination.
C2_ReplayReproducesMesh ==
    Normalized =>
      /\ Len(call.normalized) = Len(call.vertices)
      /\ \A k \in 1..Len(call.vertices) : ReplayOnVertices[k] = call.normalized[k]

C2_Witness ==
    /\ Normalized
    /\ call.method = "cartesian"
    /\ "center_at_origin" \in DOMAIN call.params
    /\ ~call.params.center_at_origin
    /\ ~call.params.preserve_aspect_ratio
    /\ call.transform_info.final_centroid # VZero
    /\ \E k \in 1..Len(call.vertices) : call.normalized[k] # call.vertices[k]
    /\ \A k \in 1..Len(call.vertices) : ReplayOnVertices[k] = call.normalized[k]

\* C5: under one record, two companions that both have a significant voxel
\* at the same physical position get the same output coordinate for it,
\* whatever else each of them contains.
C5_OutputIndependentOfCompanion ==
    (Propagated /\ ~IsNone(call.result_a) /\ ~IsNone(call.result_b)) =>
      \A i \in 1..Len(call.result_a.coordinates), j \in 1..Len(call.result_b.coordinates) :
        call.result_a.original_coordinates[i] = call.result_b.original_coordinates[j]
          => call.result_a.coordinates[i] = call.result_b.coordinates[j]

C5_Witness ==
    /\ Propagated /\ ~IsNone(call.result_a) /\ ~IsNone(call.result_b)
    /\ call.lesion_a.nii_img.zooms # call.lesion_b.nii_img.zooms
    /\ call.result_a.lesion_count # call.result_b.lesion_count
    /\ \E i \in 1..Len(call.result_a.coordinates), j \in 1..Len(call.result_b.coordinates) :
         /\ call.result_a.voxel_indices[i] # call.result_b.voxel_indices[j]
         /\ call.result_a.original_coordinates[i] = call.result_b.original_coordinates[j]
         /\ call.result_a.coordinates[i] = call.result_b.coordinates[j]

(***************************************************************************)
(* Normalization (pure functions)                                          *)
(***************************************************************************)
\* the extent of the bounding box of a vertex list
Extent(vertices) == VSub(np_max(vertices), np_min(vertices))

CartesianDone(preserve_aspect_ratio) ==
    /\ Normalized
    /\ call.method = "cartesian"
    /\ Get(call.params, "preserve_aspect_ratio", TRUE) = preserve_aspect_ratio

TargetSize == I(Get(call.params, "target_size", 100))

\* C11: cartesian with preserve_aspect_ratio and center_at_origin, on
\* vertices whose largest extent is positive, records the scalar scale
\* target_size / max(extent); the output's largest extent is target_size and
\* its centroid is the origin; extent (50,20,10), centroid (25,10,5) and
\* target_size 100 give scale 2.
C11_UniformScaleFits ==
    ( /\ CartesianDone(TRUE)
      /\ Get(call.params, "center_at_origin", TRUE)
      /\ RLess(RZero, RMaxSeq(Extent(call.vertices))) ) =>
      /\ call.transform_info.scale_factor
           = Scalar(RDiv(TargetSize, RMaxSeq(Extent(call.vertices))))
      /\ RMaxSeq(Extent(call.normalized)) = TargetSize
      /\ np_mean(call.normalized) = VZero
      /\ (call.vertices = ExampleVertices /\ TargetSize = I(100))
           => call.transform_info.scale_factor = Scalar(I(2))

C11_Witness ==
    /\ CartesianDone(TRUE)
    /\ call.params # EmptyDict
    /\ call.params.center_at_origin
    /\ call.vertices = ExampleVertices
    /\ Extent(call.vertices) = Vec(50, 20, 10)
    /\ np_mean(call.vertices) = Vec(25, 10, 5)
    /\ TargetSize = I(100)
    /\ call.transform_info.scale_factor = Scalar(I(2))
    /\ Extent(call.normalized) = Vec(100, 40, 20)

\* C12: cartesian without preserve_aspect_ratio records a 3-vector scale,
\* target_size / extent[i] on every axis of positive extent and 1 on every
\* axis of extent 0; it returns a result on every input, and the output's
\* extent is target_size on the former axes and 0 on the latter.
C12_PerAxisScaleFits ==
    CartesianDone(FALSE) =>
      /\ call.transform_info.scale_factor.kind = "vector"
      /\ Len(call.transform_info.scale_factor.v) = 3
      /\ Len(call.normalized) = Len(call.vertices)
      /\ \A i \in Axes :
           IF RLess(RZero, Extent(call.vertices)[i])
           THEN /\ call.transform_info.scale_factor.v[i]
                     = RDiv(TargetSize, Extent(call.vertices)[i])
                /\ Extent(call.normalized)[i] = TargetSize
           ELSE /\ call.transform_info.scale_factor.v[i] = I(1)
                /\ Extent(call.normalized)[i] = RZero

C12_Witness ==
    /\ CartesianDone(FALSE)
    /\ ~call.params.center_at_origin
    /\ Extent(call.vertices)[1] = I(2)
    /\ Extent(call.vertices)[2] = I(4)
    /\ Extent(call.vertices)[3] = RZero
    /\ TargetSize = I(7)
    /\ call.transform_info.scale_factor = Vector(<<Rat(7, 2), Rat(7, 4), I(1)>>)
    /\ Extent(call.normalized) = Vec(7, 7, 0)

SphericalDone == Normalized /\ call.method = "spherical"

TargetRadius == I(Get(call.params, "target_radius", 50))

\* the largest distance of a vertex from the origin
MaxDistance(vertices) == RMaxSeq(np_norms(vertices))

\* some vertex lies off the reference center
Spread == RLess(RZero, MaxDistance(RowsSub(call.vertices, call.transform_info.original_center)))

\* C13 as stated: after spherical normalization of any vertex list under any
\* center_mode the largest distance of an output vertex from the origin is
\* target_radius and the recorded final center is the origin
C13_RadiusAlwaysReached ==
    SphericalDone =>
      /\ MaxDistance(call.normalized) = TargetRadius
      /\ call.transform_info.final_center = VZero

\* C13 (amended): under any center_mode the recorded final center is the
\* origin; when some vertex lies off the reference center the largest
\* distance of an output vertex from the origin is target_radius; when every
\* vertex lies on the reference center every output vertex is the origin and
\* the recorded scale is 1.
C13_RadiusReachedWhenSpread ==
    SphericalDone =>
      /\ call.transform_info.final_center = VZero
      /\ IF Spread
         THEN MaxDistance(call.normalized) = TargetRadius
         ELSE /\ \A k \in 1..Len(call.normalized) : call.normalized[k] = VZero
              /\ call.transform_info.scale_factor = I(1)

C13_Witness ==
    /\ SphericalDone
    /\ call.params # EmptyDict
    /\ call.params.center_mode = "geometric_center"
    /\ ~call.params.normalize_to_unit_sphere
    /\ Spread
    /\ call.transform_info.original_center # np_mean(call.vertices)
    /\ MaxDistance(call.normalized) = I(50)

CenterMode == Get(call.params, "center_mode", "centroid")

\* the same request with center_mode = centroid
AsCentroid ==
    spherical_normalization(call.vertices, Get(call.params, "target_radius", 50), "centroid",
                            Get(call.params, "normalize_to_unit_sphere", TRUE))

\* the arithmetic mean of the vertices, axis by axis
ArithmeticMean(vertices) ==
    Eager([i \in Axes |-> RDiv(RSum(Column(vertices, i)), I(Len(vertices)))])

\* the middle of the bounding box
BoxMiddle(vertices) ==
    Eager([i \in Axes |-> RDiv(RAdd(np_min(vertices)[i], np_max(vertices)[i]), I(2))])

\* C14: spherical normalization with center_mode = mass_center returns the
\* normalized vertices, reference center and scale of center_mode = centroid,
\* the centroid being the arithmetic mean of the vertices; center_mode =
\* geometric_center takes the middle of the bounding box as reference center.
C14_CenterModes ==
    SphericalDone =>
      /\ CenterMode = "centroid"
           => call.transform_info.original_center = ArithmeticMean(call.vertices)
      /\ CenterMode = "mass_center"
           => /\ call.normalized = AsCentroid.vertices
              /\ call.transform_info.original_center = AsCentroid.transform_info.original_center
              /\ call.transform_info.scale_factor = AsCentroid.transform_info.scale_factor
              /\ call.transform_info.original_center = ArithmeticMean(call.vertices)
      /\ CenterMode = "geometric_center"
           => call.transform_info.original_center = BoxMiddle(call.vertices)

C14_Witness ==
    /\ SphericalDone
    /\ CenterMode = "mass_center"
    /\ ArithmeticMean(call.vertices) # BoxMiddle(call.vertices)
    /\ call.transform_info.original_center = ArithmeticMean(call.vertices)
    /\ call.normalized = AsCentroid.vertices
    /\ \E k \in 1..Len(call.vertices) : call.normalized[k] # call.vertices[k]

(***************************************************************************)
(* Propagation through the registry                                        *)
(***************************************************************************)
IsLesion(file_data) == file_type_of(file_data) = "lesion"

\* the companions of a primary: the lesion files of the primary's owner
CompanionOf(lesion, primary) ==
    IsLesion(lesion) /\ Get(lesion, "user_id", 0) = Get(primary, "user_id", 0)

ReplayedCoordinates(lesion, method, info) ==
    Eager([n \in 1..Len(argwhere_positive(lesion.data)) |->
             Replay(VMul(ToVec(argwhere_positive(lesion.data)[n]),
                         ToVec(get_zooms(lesion.nii_img))), method, info)])

\* the lesion file holds the method and record stored on the primary
CarriesRecordOf(lesion, primary) ==
    /\ "mesh_transform_info" \in DOMAIN primary
    /\ "mesh_normalization_method" \in DOMAIN primary
    /\ "lesion_transform_info" \in DOMAIN lesion
    /\ "lesion_transform_method" \in DOMAIN lesion
    /\ lesion.lesion_transform_info = primary.mesh_transform_info
    /\ lesion.lesion_transform_method = primary.mesh_normalization_method

\* ... and the coordinates that record gives for its significant voxels
HoldsCoordinatesOf(lesion, primary) ==
    /\ CarriesRecordOf(lesion, primary)
    /\ "normalized_lesion_coordinates" \in DOMAIN lesion
    /\ lesion.normalized_lesion_coordinates =
         ReplayedCoordinates(lesion, primary.mesh_normalization_method,
                             primary.mesh_transform_info)

NormalizeSucceeded == resp.op = "normalize" /\ resp.status = 200

\* C3: right after a successful normalize of a primary, every registered
\* companion of the primary's owner that has a significant voxel holds the
\* coordinates computed from the record just stored on the primary, whoever
\* (owner or administrator) sent the request.
C3_EveryCompanionFollows ==
    NormalizeSucceeded =>
      \A id \in DOMAIN uploaded_files :
        ( /\ CompanionOf(uploaded_files[id], uploaded_files[resp.file_id])
          /\ SignificantVoxels(uploaded_files[id].data) # {} )
        => HoldsCoordinatesOf(uploaded_files[id], uploaded_files[resp.file_id])

\* C4: a lesion file whose coordinates are served as 'transformed' carries
\* the method and the record that are stored now on the file whose
\* normalization wrote them.
C4_ServedRecordIsCurrent ==
    \A id \in DOMAIN uploaded_files :
      (IsLesion(uploaded_files[id]) /\ serves_transformed(uploaded_files[id])) =>
        /\ id \in DOMAIN produced_by
        /\ produced_by[id] \in DOMAIN uploaded_files
        /\ CarriesRecordOf(uploaded_files[id], uploaded_files[produced_by[id]])

(***************************************************************************)
(* Cache coherence                                                         *)
(***************************************************************************)
MeshReply(reply) == reply.op = "get_mesh" /\ reply.status = 200 /\ reply.data_type = "mesh"

SamePayload(a, b) == a.mesh_data = b.mesh_data /\ a.mesh_stats = b.mesh_stats

\* a reply with the un-normalized mesh to a request with use_cache and a
\* fingerprint
CachedPath(reply) ==
    /\ MeshReply(reply)
    /\ ~reply.normalized
    /\ reply.request.use_cache
    /\ reply.request.data_hash # 0

\* C9 as stated: a mesh request that follows a successful one on the same
\* file, fingerprint, threshold and smoothing, with no clear in between, gets
\* the same payload, marked from_cache, whatever came in between
C9_SecondCallFromCache ==
    (resp.op = "get_mesh" /\ MeshReply(earlier)) =>
      /\ MeshReply(resp)
      /\ SamePayload(resp, earlier)
      /\ resp.from_cache

\* C9 (amended): of two sequential mesh requests on one file with the same non-zero
\* fingerprint, threshold and smoothing, both sent with use_cache and both
\* answered with the un-normalized mesh, the first successful and no clear
\* in between, the second returns the payload of the first and is marked
\* from_cache -- whatever uploads, normalizations and slices come in between.
C9_CachedPathRepeats ==
    (resp.op = "get_mesh" /\ CachedPath(earlier)) =>
      /\ MeshReply(resp)
      /\ (~resp.normalized /\ resp.request.use_cache)
           => (SamePayload(resp, earlier) /\ resp.from_cache)

C9_Witness ==
    /\ resp.op = "get_mesh" /\ CachedPath(earlier) /\ CachedPath(resp)
    /\ ~earlier.from_cache
    /\ resp.from_cache
    /\ SamePayload(resp, earlier)
    /\ "normalized_mesh_data" \in DOMAIN uploaded_files[resp.file_id]
    /\ Cardinality(DOMAIN uploaded_files) = 2

(***************************************************************************)
(* Overlapping requests                                                    *)
(***************************************************************************)
Normalizer(t) == threads[t].req.op = "normalize"

Finished(t) == threads[t].pc = "done"

BothNormalized ==
    \A t \in Threads : Normalizer(t) /\ Finished(t) /\ threads[t].reply.status = 200

\* everything stored on the primary and on its companions is what the
\* invocation on thread t computed
FromInvocation(t) ==
    /\ \A k \in 1..Len(PrimaryStores) :
         uploaded_files[threads[t].req.file_id][PrimaryStores[k]]
           = threads[t].fields[PrimaryStores[k]]
    /\ \A id \in DOMAIN uploaded_files :
         ( /\ CompanionOf(uploaded_files[id], uploaded_files[threads[t].req.file_id])
           /\ SignificantVoxels(uploaded_files[id].data) # {} )
         => /\ uploaded_files[id].lesion_transform_method = threads[t].method
            /\ uploaded_files[id].lesion_transform_info = threads[t].transform_info
            /\ uploaded_files[id].normalized_lesion_coordinates
                 = ReplayedCoordinates(uploaded_files[id], threads[t].method,
                                       threads[t].transform_info)

\* C6: when two normalizations of the same primary have overlapped and both
\* have finished, the primary's stored mesh, method, parameters and record
\* and every companion's stored coordinates and record all come from one and
\* the same of the two invocations.
C6_OneInvocationWins ==
    BothNormalized => \E t \in Threads : FromInvocation(t)

\* the values a normalization in progress is writing, and the values stored
\* before the requests arrived
PrimaryVersions(file_id) ==
    {ConcRegistry[file_id]}
      \cup {threads[w].fields : w \in {t \in Threads : /\ Normalizer(t)
                                                       /\ threads[t].req.file_id = file_id
                                                       /\ "fields" \in DOMAIN threads[t]}}

LesionVersions(file_id) ==
    {ConcRegistry[file_id]}
      \cup {lesion_fields(transform_lesion_coordinates(ConcRegistry[file_id],
                                                       threads[w].transform_info,
                                                       threads[w].method, threads[w].zooms),
                          threads[w].method, threads[w].transform_info) :
              w \in {t \in Threads : Normalizer(t) /\ "fields" \in DOMAIN threads[t]}}

Answered(t) == threads[t].req.op = "get_mesh" /\ Finished(t) /\ threads[t].reply.status = 200

WholeMesh(reply, version) ==
    /\ reply.mesh_data = version.normalized_mesh_data
    /\ reply.mesh_stats.normalization_method = version.mesh_normalization_method
    /\ reply.mesh_stats.transform_info = version.mesh_transform_info

WholeLesion(reply, version) ==
    /\ reply.coordinates = version.normalized_lesion_coordinates
    /\ reply.transform_method = version.lesion_transform_method
    /\ reply.transform_info = version.lesion_transform_info

\* C7: a request that reads the normalized mesh with its method and record,
\* or a companion's transformed coordinates with their method and record,
\* while a normalization is in progress is answered entirely with the
\* previous values or entirely with the new ones.
C7_NoTornRead ==
    \A t \in Threads :
      (Answered(t) /\ threads[t].reply.normalized) =>
        IF threads[t].reply.data_type = "mesh"
        THEN \E version \in PrimaryVersions(threads[t].req.file_id) :
               WholeMesh(threads[t].reply, version)
        ELSE \E version \in LesionVersions(threads[t].req.file_id) :
               WholeLesion(threads[t].reply, version)

\* the step a thread is about to take looks a file up in the registry,
\* iterates over the registry or registers a file
RegistryAccess(t) ==
    \/ threads[t].pc = "start" /\ threads[t].req.op \in {"normalize", "get_mesh"}
    \/ threads[t].pc \in {"iterate", "next", "register"}

\* ... or gets from, puts into or clears the cache
CacheAccess(t) == threads[t].pc \in {"cache_get", "cache_put", "cache_data", "clear"}

LockedAccess ==
    \A t \in Threads :
      (threads'[t] # threads[t] /\ (RegistryAccess(t) \/ CacheAccess(t))) => cache_lock = t

IterationsUndisturbed ==
    \A t \in Threads :
      (Normalizer(t) /\ Finished(t)) => threads[t].reply.status # 500

\* C8: every step that reads or writes the registry or the cache is taken by
\* the thread that holds the lock, and no iteration over the registry is
\* broken by a registration.
C8_AccessUnderLock == [][LockedAccess]_vars /\ []IterationsUndisturbed

ClearStep == \E t \in Threads : threads[t].pc = "clear" /\ threads'[t].pc = "done"

EntriesKept ==
    /\ \A k \in DOMAIN processing_cache.mesh :
         k \in DOMAIN processing_cache'.mesh /\ processing_cache'.mesh[k] = processing_cache.mesh[k]
    /\ \A k \in DOMAIN processing_cache.data :
         k \in DOMAIN processing_cache'.data /\ processing_cache'.data[k] = processing_cache.data[k]

\* C10: under any interleaving of mesh, upload and normalize requests, a key
\* of the cache that holds an entry keeps it, with its value, in every step
\* that is not the clear-all.
C10_EntriesStable == [][ClearStep \/ EntriesKept]_vars

(***************************************************************************)
(* Companions without a significant voxel                                  *)
(***************************************************************************)
\* the registered companions of the normalized primary without a voxel > 0 ...
EmptyCompanions(files) ==
    {id \in DOMAIN files : /\ CompanionOf(files[id], files[resp.file_id])
                           /\ SignificantVoxels(files[id].data) = {}}

\* ... and those with one
FullCompanions(files) ==
    {id \in DOMAIN files : /\ CompanionOf(files[id], files[resp.file_id])
                           /\ SignificantVoxels(files[id].data) # {}}

ReportOf(id) == {e \in resp.automatic_lesion_transforms : e.file_id = id}

\* the report of the request holds the nothing-to-transform outcome for
\* every companion without a significant voxel, and such a companion holds
\* no coordinates; every other companion holds the new coordinates
EmptyCompanionReported ==
    NormalizeSucceeded =>
      /\ "normalized_mesh_data" \in DOMAIN uploaded_files[resp.file_id]
      /\ \A id \in EmptyCompanions(uploaded_files) :
           /\ ReportOf(id) = {[file_id |-> id, status |-> "no_lesions_found",
                               transform_applied |-> FALSE]}
           /\ DOMAIN uploaded_files[id]
                \cap {"normalized_lesion_coordinates", "lesion_transform_applied",
                      "lesion_transform_method", "lesion_transform_info"} = {}
      /\ \A id \in FullCompanions(uploaded_files) :
           /\ \A e \in ReportOf(id) : e.status = "success" /\ e.transform_applied
           /\ ReportOf(id) # {}
           /\ HoldsCoordinatesOf(uploaded_files[id], uploaded_files[resp.file_id])

\* a step that answers a normalize with status 200 leaves every registered
\* lesion file without a significant voxel as it was
EmptyCompanionKept ==
    (resp'.op = "normalize" /\ resp'.status = 200 /\ uploaded_files' # uploaded_files) =>
      \A id \in DOMAIN uploaded_files :
        (IsLesion(uploaded_files[id]) /\ SignificantVoxels(uploaded_files[id].data) = {})
          => /\ id \in DOMAIN uploaded_files'
             /\ uploaded_files'[id] = uploaded_files[id]

Extracted == served.op = "extract"

ExtractedData == volume_data(uploaded_files[ExtractId])

\* every voxel of the volume has the same value
Flat(data) == Cardinality(Values(data)) = 1

\* the voxels of a smoothed volume above, and not below, a threshold
VoxelsAbove(smoothed, threshold) ==
    {x \in Indices(smoothed.shape) : RLess(threshold, smoothed.vals[x])}

VoxelsAtLeast(smoothed, threshold) ==
    {x \in Indices(smoothed.shape) : ~RLess(smoothed.vals[x], threshold)}

ThresholdOn(lo, hi, threshold_level) == RAdd(lo, RMul(RSub(hi, lo), threshold_level))

\* the branch an extraction must take, given the range of the smoothed
\* volume and the number of its voxels above the threshold
BranchFollowsCount(log, lo, hi, above) ==
    /\ RLess(lo, hi) =>
         /\ (log.printed = TooFewVoxels) <=> (above < 100)
         /\ log.printed = TooFewVoxels => IsNone(log.returned)
         /\ log.printed # TooFewVoxels => log.printed \in {GeneratedMesh, ErrorGeneratingMesh}
    /\ ~RLess(lo, hi) => log.printed = NoVariation

BranchFollowsRange(log, smoothed, lo, hi) ==
    BranchFollowsCount(log, lo, hi,
        Cardinality(VoxelsAbove(smoothed, ThresholdOn(lo, hi, log.threshold_level))))

BranchFollowsValues(log, smoothed, values) ==
    BranchFollowsRange(log, smoothed, MinOf(values), MaxOf(values))

BranchFollowsVolume(log, smoothed) == BranchFollowsValues(log, smoothed, Values(smoothed))

\* C16: on a registered volume whose voxels all have one value, every
\* extraction, at every threshold_level and smoothing, returns no mesh by
\* the branch for data without variation; the request is answered with
\* status 400 and no mesh of the volume is ever in the cache.
C16_FlatVolumeNoVariation ==
    (ExtractId \in DOMAIN uploaded_files /\ Flat(ExtractedData)) =>
      /\ processing_cache.mesh = EmptyDict
      /\ "normalized_mesh_data" \notin DOMAIN uploaded_files[ExtractId]
      /\ Extracted => /\ IsNone(served.returned)
                      /\ served.printed = NoVariation
                      /\ resp.status = 400

C16_Witness ==
    /\ ExtractId \in DOMAIN uploaded_files
    /\ ExtractedData = FlatData(<<5, 5, 5>>, 7)
    /\ Extracted
    /\ served.handler = "get_mesh"
    /\ served.threshold_level = I(0)
    /\ served.smoothing = I(1)
    /\ served.printed = NoVariation
    /\ resp.status = 400
    /\ processing_cache.mesh = EmptyDict

\* C17: on a volume whose smoothed values have hi > lo, an extraction
\* returns no mesh by the branch for too few voxels exactly when fewer than
\* 100 voxels are strictly greater than lo + (hi - lo) * threshold_level,
\* and otherwise goes on to the surface extraction; a volume with hi = lo
\* never takes that branch; the 4 x 4 x 4 volume that is zero except one
\* voxel of value 10 takes it at threshold_level 0.5.
C17_TooFewExactlyBelowMinimum ==
    Extracted =>
      /\ BranchFollowsVolume(served, smoothed_data_of(ExtractedData, served.smoothing))
      /\ (ExtractedData = OneVoxelData /\ served.threshold_level = Rat(1, 2))
           => served.printed = TooFewVoxels

C17_Witness ==
    /\ Extracted
    /\ ExtractedData = SteppedData
    /\ served.threshold_level = Rat(1, 2)
    /\ served.smoothing = I(0)
    /\ Cardinality(VoxelsAbove(astype_float(SteppedData), I(1))) = 99
    /\ Cardinality(VoxelsAtLeast(astype_float(SteppedData), I(1))) = 124
    /\ ThresholdOn(I(0), I(2), served.threshold_level) = I(1)
    /\ IsNone(served.returned)
    /\ served.printed = TooFewVoxels

\* C18: the value an extraction returns on a failure tells the failure from
\* every failure of another kind (no variation, too few voxels, an error
\* raised inside): no extraction of the model that failed by another branch
\* returns the same value.
C18_FailuresDistinguishable ==
    (Extracted /\ IsNone(served.returned)) =>
      \A i \in DOMAIN MeshTable :
        (IsNone(MeshTable[i].mesh.returned) /\ MeshTable[i].mesh.printed # served.printed)
          => MeshTable[i].mesh.returned # served.returned

\* C19: normalize-mesh on a registered primary volume with a method that is
\* neither cartesian nor spherical is answered with the unknown-method error,
\* whatever the volume holds and whatever the other parameters are.
C19_UnknownMethodAlways ==
    (Extracted /\ served.handler = "normalize_mesh" /\ served.method \notin Methods) =>
      resp = [op |-> "normalize", status |-> 400, error |-> "unknown method"]

(***************************************************************************)
(* Slices                                                                  *)
(***************************************************************************)
\* a slice request on a registered volume that its sender may read
SliceOnAccessible ==
    /\ served.op = "slice"
    /\ ExtractId \in DOMAIN uploaded_files
    /\ \/ uploaded_files[ExtractId].user_id = served.user_id
       \/ users[served.user_id].role = "admin"

\* the axis a plane keeps fixed
FixedAxis(plane) == CASE plane = "axial" -> 3 [] plane = "coronal" -> 2 [] plane = "sagittal" -> 1

\* the voxels of the volume on a plane
PlaneVoxels(data, plane, index) == {x \in Indices(data.shape) : x[FixedAxis(plane)] = index}

\* a 2D array that holds each voxel of the plane once
IsSliceOf(reply, data, plane, index) ==
    /\ reply.status = 200
    /\ \A i \in 1..Len(reply.slice_data) : Len(reply.slice_data[i]) = Len(reply.slice_data[1])
    /\ Len(reply.slice_data) * Len(reply.slice_data[1]) = Cardinality(PlaneVoxels(data, plane, index))
    /\ {reply.slice_data[i][j] : i \in 1..Len(reply.slice_data), j \in 1..Len(reply.slice_data[1])}
         = {data.vals[x] : x \in PlaneVoxels(data, plane, index)}

IndexOutOfRange == [op |-> "get_slice", status |-> 400, error |-> "Slice index out of range"]

InvalidPlane == [op |-> "get_slice", status |-> 400, error |-> "Invalid view type"]

\* C20: a slice request on an accessible registered volume is answered with
\* the out-of-range error exactly when the plane is axial, coronal or
\* sagittal and the index is negative or not below the extent of the volume
\* along the third, second or first axis; with the invalid-plane error for
\* every other plane name, whatever the index; with a 2D array of the
\* plane's voxels in every other case.
C20_SliceIndexChecked ==
    SliceOnAccessible =>
      IF served.view_type \in {"axial", "coronal", "sagittal"}
      THEN IF \/ served.slice_index < 0
              \/ served.slice_index >= ExtractedData.shape[FixedAxis(served.view_type)]
           THEN resp = IndexOutOfRange
           ELSE IsSliceOf(resp, ExtractedData, served.view_type, served.slice_index)
      ELSE resp = InvalidPlane

C20_Witness ==
    /\ SliceOnAccessible
    /\ ExtractedData = ThinData
    /\ served.view_type = "coronal"
    /\ served.slice_index = 10
    /\ ThinData.shape = <<1, 10, 11>>
    /\ resp = IndexOutOfRange

(***************************************************************************)
(* What a request leaves alone                                             *)
(***************************************************************************)
\* the raw data, fingerprint, voxel spacing, role and owner of a registered file
Identity(file_data) ==
    [data |-> file_data.data, data_hash |-> file_data.data_hash,
     zooms |-> get_zooms(file_data.nii_img), file_type |-> file_type_of(file_data),
     user_id |-> file_data.user_id]

\* a step keeps every registered file registered, with its identity
VolumesKept ==
    \A id \in DOMAIN uploaded_files :
      /\ id \in DOMAIN uploaded_files'
      /\ Identity(uploaded_files'[id]) = Identity(uploaded_files[id])

\* the same for the steps that register no file
VolumesKeptUnlessUpload == resp'.op # "upload" => VolumesKept

\* C21: no request changes the raw data, the fingerprint, the voxel
\* spacing, the role or the owner of a volume that is registered.
C21_VolumeNeverChanges == [][VolumesKept]_vars

\* every request that is not an upload keeps the registered volumes
C21_OtherRequestsKeepVolumes == [][VolumesKeptUnlessUpload]_vars

(***************************************************************************)
(* The trial limit                                                         *)
(***************************************************************************)
\* the uploads of the account that were answered 200
SuccessfulUploads == served.n + answered_ok

\* C22: an account that no administrator approved completes at most
\* trial_max_uploads uploads, however its upload requests overlap, and an
\* upload that arrives when the limit is reached is answered 403.
C22_TrialLimitHolds ==
    ~served.approved =>
      /\ SuccessfulUploads <= TrialMaxUploads
      /\ \A t \in Threads :
           (threads[t].pc = "done" /\ threads[t].late) => threads[t].reply.status = 403

(***************************************************************************)
(* Access to the files of another user                                     *)
(***************************************************************************)
FileEndpoints == {"analysis", "normalize", "get_mesh", "get_slice", "export_mesh", "export_volume"}

\* the request just answered came from a user who neither owns the registered
\* file it names nor is an administrator
Stranger(request, files) ==
    /\ request.op \in FileEndpoints
    /\ request.file_id \in DOMAIN files
    /\ files[request.file_id].user_id # request.user_id
    /\ users[request.user_id].role # "admin"

StrangerRefused ==
    Stranger(served', uploaded_files) =>
      /\ resp'.op = served'.op
      /\ resp'.status = 403
      /\ "activity" \notin DOMAIN resp'
      /\ UNCHANGED <<users, uploaded_files, processing_cache, now>>

OwnListing ==
    (served'.op = "files" /\ users[served'.user_id].role # "admin") =>
      /\ \A e \in resp'.files : uploaded_files[e.file_id].user_id = served'.user_id
      /\ \A id \in DOMAIN uploaded_files :
           uploaded_files[id].user_id = served'.user_id => \E e \in resp'.files : e.file_id = id

\* C23: a user who neither owns a registered file nor is an administrator gets
\* 403 from analysis, normalize-mesh, mesh, slice, export mesh and export
\* volume for that file, and the request changes nothing; the listing of a
\* user who is not an administrator holds that user's files only
C23_StrangersRefused == [][StrangerRefused /\ OwnListing]_vars

\* a colleague asked for the export of the doctor's registered volume
C23_Witness ==
    /\ served.op = "export_volume"
    /\ served.user_id = ColleagueId
    /\ served.file_id \in DOMAIN uploaded_files
    /\ uploaded_files[served.file_id].user_id = DoctorId
    /\ resp.status = 403

(***************************************************************************)
(* The coordinate space of a scan's mesh and of its mask's coordinates     *)
(***************************************************************************)
\* index * spacing
PhysicalVertices(file_data, mesh) == scale_by_zooms(mesh.vertices, get_zooms(file_data.nii_img))

PhysicalVoxels(file_data) ==
    indices_to_mm(argwhere_positive(volume_data(file_data)), get_zooms(file_data.nii_img))

\* a vertex and a voxel at the same physical position are served with the
\* same coordinates
ServedAlike(vertex_positions, voxel_positions, vertices, coordinates) ==
    \A i \in 1..Len(vertex_positions), n \in 1..Len(voxel_positions) :
      vertex_positions[i] = voxel_positions[n] => vertices[i] = coordinates[n]

BothViewed ==
    /\ {"mesh", "lesion"} \subseteq DOMAIN served
    /\ {SubjectScan, SubjectLesion} \subseteq DOMAIN uploaded_files

SameSpace ==
    ServedAlike(PhysicalVertices(uploaded_files[SubjectScan],
                                 generate_mesh_from_data(volume_data(uploaded_files[SubjectScan]),
                                                         Rat(1, 10), I(1))),
                PhysicalVoxels(uploaded_files[SubjectLesion]),
                served.mesh.mesh_data.vertices, served.lesion.coordinates)

\* C24: in every state the mesh served for a scan and the coordinates served
\* for its mask are in one coordinate space: a mesh vertex and a mask voxel at
\* the same physical position (index * spacing) are served with the same
\* coordinates
C24_SameCoordinateSpace == BothViewed => SameSpace

\* the same, once the scan is normalized and both the normalized mesh and
\* the transformed coordinates are served
C24_SameSpaceAfterNormalization ==
    (BothViewed /\ served.mesh.normalized /\ served.lesion.normalized) => SameSpace

(***************************************************************************)
(* Two requests that miss on one cache key                                 *)
(***************************************************************************)
\* the thread extracted a mesh after a miss, to store it in the cache
Extractor(t) ==
    /\ threads[t].req.op = "get_mesh"
    /\ "mesh_data" \in DOMAIN threads[t]

MissKey(t) ==
    cache_key(uploaded_files[threads[t].req.file_id].data_hash,
              threshold_of(threads[t].req), smoothing_of(threads[t].req))

\* C25: two requests that miss together on one cache key both extract and
\* both write, and what they write is equal, so that the cache and every
\* later hit do not depend on the order of the two writes
C25_ConcurrentMissesWriteEqual ==
    \A t, u \in Threads :
      (Extractor(t) /\ Extractor(u) /\ MissKey(t) = MissKey(u)) =>
        /\ threads[t].mesh_data = threads[u].mesh_data
        /\ threads[t].mesh_stats = threads[u].mesh_stats

(***************************************************************************)
(* What happens under the lock                                             *)
(***************************************************************************)
\* the steps inside a "with cache_lock" block
LockedBlocks == {"cache_get", "cache_put", "register", "cache_data", "clear", "stats"}

\* extraction, normalization and propagation
Computing(t) ==
    \/ threads[t].pc = "generate"
    \/ threads[t].req.op = "normalize" /\ threads[t].pc # "done"

HeldInBlocksOnly ==
    /\ cache_lock # 0 => threads[cache_lock].pc \in LockedBlocks
    /\ \A t \in Threads : Computing(t) => cache_lock # t

Waiting(t) == threads[t].pc = "acquire"

\* C26: the lock is held only for the cache lookup, the cache insert, the
\* registry insert, clear-all and the statistics read, never during
\* extraction, normalization or propagation, and it is released on every
\* path, so that a thread waiting for the lock eventually acquires it
C26_LockHeldBriefly == []HeldInBlocksOnly /\ \A t \in Threads : Waiting(t) ~> (cache_lock = t)

\* a thread waits while the other one is inside a block
C26_Witness ==
    \E t, u \in Threads :
      /\ Waiting(t)
      /\ cache_lock = u
      /\ threads[u].pc \in LockedBlocks

(***************************************************************************)
(* The bookkeeping of a propagation                                        *)
(***************************************************************************)
\* one entry per voxel above 0, and the three lists entry by entry about
\* the same voxel
PropagationAligned(lesion, result, voxels) ==
    IF voxels = {} THEN IsNone(result)
    ELSE /\ ~IsNone(result)
         /\ result.lesion_count = Cardinality(voxels)
         /\ Len(result.coordinates) = Cardinality(voxels)
         /\ Len(result.original_coordinates) = Cardinality(voxels)
         /\ Len(result.voxel_indices) = Cardinality(voxels)
         /\ {result.voxel_indices[n] : n \in 1..Len(result.voxel_indices)} = voxels
         /\ \A n \in 1..Len(result.voxel_indices) :
              /\ lesion.data.vals[result.voxel_indices[n]] > 0
              /\ result.original_coordinates[n] =
                   VMul(ToVec(result.voxel_indices[n]), ToVec(lesion.nii_img.zooms))
              /\ result.coordinates[n] =
                   Replay(result.original_coordinates[n], call.method, call.transform_info)

FacesInRange(mesh_data) ==
    \A f \in 1..Len(mesh_data.faces) : \A c \in 1..3 :
      mesh_data.faces[f][c] >= 0 /\ mesh_data.faces[f][c] < Len(mesh_data.vertices)

\* the faces of the extracted mesh, and vertex by vertex the image of the
\* extracted vertex at its physical position
NormalizedFrom(mesh_data, extracted, zooms, method, transform_info) ==
    /\ mesh_data.faces = extracted.faces
    /\ Len(mesh_data.vertices) = Len(extracted.vertices)
    /\ \A i \in 1..Len(extracted.vertices) :
         mesh_data.vertices[i] =
           Replay(scale_by_zooms(extracted.vertices, zooms)[i], method, transform_info)
    /\ FacesInRange(mesh_data)

StoredMeshSound(file_data) ==
    "normalized_mesh_data" \in DOMAIN file_data =>
      NormalizedFrom(file_data.normalized_mesh_data,
                     generate_mesh_from_data(volume_data(file_data),
                         Get(file_data.mesh_normalization_params, "threshold", Rat(1, 10)),
                         Get(file_data.mesh_normalization_params, "smoothing", I(1))),
                     get_zooms(file_data.nii_img), file_data.mesh_normalization_method,
                     file_data.mesh_transform_info)

ReturnedMeshStored ==
    (resp.op = "normalize" /\ resp.status = 200) =>
      resp.normalized_mesh_data = uploaded_files[resp.file_id].normalized_mesh_data

\* C28: normalize keeps the faces of the extracted mesh and gives one
\* normalized vertex for each extracted vertex, in the same order, so that
\* every face index is below the vertex count in the stored and in the
\* returned normalized mesh, for both methods and all parameters
C28_FacesIndexVertices ==
    /\ \A id \in DOMAIN uploaded_files : StoredMeshSound(uploaded_files[id])
    /\ ReturnedMeshStored

\* a spherical normalization onto the unit sphere has just been answered
C28_Witness ==
    /\ resp.op = "normalize" /\ resp.status = 200
    /\ resp.method = "spherical"
    /\ Get(uploaded_files[resp.file_id].mesh_normalization_params, "normalize_to_unit_sphere", FALSE)
    /\ Len(resp.normalized_mesh_data.faces) > 0

(***************************************************************************)
(* What clear-all leaves behind                                            *)
(***************************************************************************)
EmptyCache == [data |-> EmptyDict, mesh |-> EmptyDict]

\* a step that is answered by clear-all (the clock stands still during a request)
ClearedOnly ==
    (resp'.op = "clear_cache" /\ now' = now) =>
      /\ processing_cache' = EmptyCache
      /\ UNCHANGED <<uploaded_files, users>>

MeshServed(reply) == reply.op = "get_mesh" /\ reply.status = 200 /\ reply.data_type = "mesh"

\* the mesh a request gets when nothing is cached
FreshMesh(file_data, mesh, normalized) ==
    IF normalized THEN file_data.normalized_mesh_data
    ELSE prepare_mesh_for_frontend(mesh.vertices, mesh.faces, file_data.nii_img)

\* a reply is marked from_cache only if its key was in the cache
HitWasCached ==
    (MeshServed(resp') /\ resp'.from_cache) =>
      cache_key(resp'.request.data_hash, resp'.request.threshold, resp'.request.smoothing)
        \in DOMAIN processing_cache.mesh

\* the request that follows clear-all: registered volumes are served, with
\* a recomputed mesh
ServedAfterClear ==
    (resp.op = "clear_cache" /\ resp'.op = "get_mesh") =>
      /\ resp'.status # 200 => (resp'.status = 404 /\ ~(FileIds \subseteq DOMAIN uploaded_files))
      /\ MeshServed(resp') =>
           /\ ~resp'.from_cache
           /\ resp'.mesh_data =
                FreshMesh(uploaded_files[resp'.file_id],
                          generate_mesh_from_data(volume_data(uploaded_files[resp'.file_id]),
                                                  resp'.request.threshold,
                                                  resp'.request.smoothing),
                          resp'.normalized)

\* C29: clear-all empties the cache and changes nothing else: the registered
\* volumes with their normalized meshes, records and coordinates stay as
\* they are and are still served, and the next mesh request for any key
\* recomputes the mesh and is not marked from_cache
C29_ClearAllOnlyEmptiesCache == [][ClearedOnly /\ HitWasCached /\ ServedAfterClear]_vars

\* clear-all has just emptied the cache of a service that holds a
\* normalized volume
C29_Witness ==
    /\ resp.op = "clear_cache"
    /\ processing_cache = EmptyCache
    /\ \E id \in DOMAIN uploaded_files : "normalized_mesh_data" \in DOMAIN uploaded_files[id]

(***************************************************************************)
(* Slices repeated                                                         *)
(***************************************************************************)
\* a slice request leaves the registry and the cache as they were
SliceReadsOnly == served'.op = "slice" => UNCHANGED <<uploaded_files, processing_cache>>

\* the remembered request, sent again, gets the remembered reply
RepeatedSliceSame ==
    (earlier.op = "slice" /\ served = earlier.request) => resp = earlier.reply

\* C30: the oriented slice is a function of the volume, the plane and the
\* index, and taking it changes nothing: the same request repeated returns
\* the same array, and the volume's data is the same after any number of
\* slice requests
C30_SliceRepeatable == []RepeatedSliceSame /\ [][SliceReadsOnly]_vars

\* a slice with more than one value was requested a second time
C30_Witness ==
    /\ earlier.op = "slice"
    /\ earlier.again
    /\ served = earlier.request
    /\ resp.status = 200
    /\ Cardinality({resp.slice_data[i][j] : i \in 1..Len(resp.slice_data),
                                            j \in 1..Len(resp.slice_data[1])}) > 1

(***************************************************************************)
(* Account status                                                          *)
(***************************************************************************)
\* the step is a request, not the passing of time
RequestStep(op) == now' = now /\ served'.op = op

ExpiredTrial(u) == users[u].status = "trial" /\ ~(now < users[u].trial_ends_at)

\* a login with valid credentials, or an upload, by user u
AccessAttempt(u) ==
    /\ served'.user_id = u
    /\ \/ RequestStep("login") /\ resp'.status # 401
       \/ RequestStep("upload")

ExpiryDetected(u) == ExpiredTrial(u) /\ AccessAttempt(u) => resp'.status = 403 /\ users'[u].status = "suspended"

ExpiryDetectedByUpload(u) == ExpiredTrial(u) /\ RequestStep("upload") /\ served'.user_id = u => resp'.status = 403 /\ users'[u].status = "suspended"

ExpiryDetectedByLogin(u) == ExpiredTrial(u) /\ RequestStep("login") /\ served'.user_id = u /\ resp'.status # 401 => resp'.status = 403 /\ users'[u].status = "pending"

\* C31: the first access attempt (login or upload) of a user on trial whose
\* trial period has expired is denied and moves the user to suspended.
C31_ExpiryDeniesAndSuspends == [][\A u \in AccountDoctors : ExpiryDetected(u)]_vars

\* an upload that detects the expiry is refused and suspends the user
C31_UploadSuspends == [][\A u \in AccountDoctors : ExpiryDetectedByUpload(u)]_vars

\* a login that detects the expiry is refused and leaves the user pending
C31_LoginMovesToPending == [][\A u \in AccountDoctors : ExpiryDetectedByLogin(u)]_vars

(***************************************************************************)
(* The ASCII triangle writer                                               *)
(***************************************************************************)
LinesPerFacet == 7

\* n is the unit vector along c, or the zero vector when c has no length
NormalizedCross(n, c) ==
    IF c = VZero THEN n = VZero
    ELSE /\ np_norm(n) = I(1)
         /\ VScale(n, np_norm(c)) = c

\* the lines of face k of the output
FacetWritten(out, vertices, face, k) ==
    /\ out[k + 1].line = "facet normal"
    /\ NormalizedCross(out[k + 1].xyz,
                       np_cross(VSub(vertices[face[2] + 1], vertices[face[1] + 1]),
                                VSub(vertices[face[3] + 1], vertices[face[1] + 1])))
    /\ out[k + 2] = [line |-> "outer loop"]
    /\ \A i \in 1..3 : out[k + 2 + i] = [line |-> "vertex", xyz |-> vertices[face[i] + 1]]
    /\ out[k + 6] = [line |-> "endloop"]
    /\ out[k + 7] = [line |-> "endfacet"]

StlWritten(out, vertices, faces) ==
    /\ Len(out) = LinesPerFacet * Len(faces) + 2
    /\ out[1] = [line |-> "solid mesh"]
    /\ out[Len(out)] = [line |-> "endsolid mesh"]
    /\ \A f \in 1..Len(faces) : FacetWritten(out, vertices, faces[f], LinesPerFacet * (f - 1) + 1)

\* C32: the triangle writer emits one facet per face, in face order, with
\* the three vertices the face refers to, verbatim and in order, and with
\* the normalized cross product of (v2 - v1) and (v3 - v1) as normal, or the
\* zero vector when the cross product has no length.
C32_OneFacetPerFace == call.op = "stl" /\ call.done => StlWritten(call.result, call.vertices, call.faces)

\* two faces were written, one with a normalized normal that is not along
\* an axis and one degenerate with the zero normal
C32_Witness ==
    /\ call.op = "stl" /\ call.done
    /\ Len(call.faces) = MaxStlFaces
    /\ call.result[2].xyz \notin {VZero, Vec(0, 0, 1), Vec(0, 0, -1)}
    /\ call.result[2].xyz[1].r # 1
    /\ call.result[LinesPerFacet + 2].xyz = VZero

(***************************************************************************)
(* Cached meshes against fresh ones                                        *)
(***************************************************************************)
\* what get_mesh computes on a miss for this volume and these parameters
FreshlyPrepared(file_data, mesh) ==
    IF IsNone(mesh) THEN None
    ELSE [mesh_data |-> prepare_mesh_for_frontend(mesh.vertices, mesh.faces, file_data.nii_img),
          mesh_stats |-> mesh.mesh_stats]

FreshlyComputed(file_data, threshold, smoothing) ==
    FreshlyPrepared(file_data, generate_mesh_from_data(volume_data(file_data), threshold, smoothing))

EqualsFresh(reply, fresh) ==
    /\ ~IsNone(fresh)
    /\ reply.mesh_data = fresh.mesh_data
    /\ reply.mesh_stats = fresh.mesh_stats

\* a mesh request answered from the cache
ServedFromCache(reply) ==
    /\ reply.op = "get_mesh"
    /\ reply.status = 200
    /\ reply.data_type = "mesh"
    /\ reply.from_cache

CachedEqualsFresh ==
    (now' = now /\ ServedFromCache(resp')) =>
      EqualsFresh(resp', FreshlyComputed(uploaded_files[resp'.file_id],
                                         resp'.request.threshold, resp'.request.smoothing))

\* C33: a mesh served from the cache for a request on a volume equals the
\* mesh a fresh computation on that volume with the same parameters
\* returns (vertices, faces, centroid, voxel_spacing, bounds), whatever
\* volumes are registered.
C33_CachedMeshEqualsFresh == [][CachedEqualsFresh]_vars

\* two registered volumes with the same fingerprint and different spacing,
\* the later one answered from the cache with the spacing of the earlier
TwinServedOtherSpacing ==
    /\ ServedFromCache(resp)
    /\ resp.file_id = <<DoctorId, MaxTime, "scan.nii">>
    /\ DOMAIN uploaded_files = {<<DoctorId, 0, "scan.nii">>, <<DoctorId, MaxTime, "scan.nii">>}
    /\ uploaded_files[<<DoctorId, 0, "scan.nii">>].data_hash = uploaded_files[resp.file_id].data_hash
    /\ resp.mesh_data.voxel_spacing = get_zooms(uploaded_files[<<DoctorId, 0, "scan.nii">>].nii_img)
    /\ resp.mesh_data.voxel_spacing # get_zooms(uploaded_files[resp.file_id].nii_img)

(***************************************************************************)
(* Failed normalize requests                                               *)
(***************************************************************************)
\* a normalize request answered with an error
FailedNormalize == now' = now /\ resp'.op = "normalize" /\ resp'.status # 200

StoredMesh(file_data) == "normalized_mesh_data" \in DOMAIN file_data

StoredCoordinates(file_data) == "normalized_lesion_coordinates" \in DOMAIN file_data

\* C34: a normalize request that fails (lesion target, unregistered file,
\* access denied, failed surface extraction, unknown method) leaves the
\* registry unchanged: the stored normalized mesh, method, parameters and
\* record of the target and the stored coordinates and record of every
\* companion keep their values.
C34_FailedNormalizeKeepsRegistry == [][FailedNormalize => uploaded_files' = uploaded_files]_vars

\* an unknown method was refused for a target that holds a normalized mesh
\* while a companion holds transformed coordinates
C34_Witness ==
    /\ resp.op = "normalize" /\ resp.status = 400 /\ resp.error = "unknown method"
    /\ served.op = "normalize"
    /\ served.file_id \in DOMAIN uploaded_files
    /\ StoredMesh(uploaded_files[served.file_id])
    /\ \E id \in DOMAIN uploaded_files : StoredCoordinates(uploaded_files[id])

\* each way of failing happens on a registry with stored results
FailedWith(status, error) ==
    /\ resp.op = "normalize" /\ resp.status = status
    /\ status = 400 => resp.error = error
    /\ served.op = "normalize"
    /\ \E id \in DOMAIN uploaded_files : StoredMesh(uploaded_files[id])
    /\ \E id \in DOMAIN uploaded_files : StoredCoordinates(uploaded_files[id])

FailedAsLesion == FailedWith(400, "lesion file")

FailedAsUnregistered == FailedWith(404, "")

FailedAsDenied == FailedWith(403, "")

FailedAsNoMesh == FailedWith(400, "no mesh")

(***************************************************************************)
(* Uploads and the ids they register                                       *)
(***************************************************************************)
SuccessfulUpload == now' = now /\ resp'.op = "upload" /\ resp'.status = 200

RegistersFreshId ==
    SuccessfulUpload =>
      /\ resp'.file_id \notin DOMAIN uploaded_files
      /\ resp'.file_id \in DOMAIN uploaded_files'
      /\ \A id \in DOMAIN uploaded_files :
           id \in DOMAIN uploaded_files' /\ uploaded_files'[id] = uploaded_files[id]

\* a successful upload keeps every entry registered under another id
KeepsOtherIds ==
    SuccessfulUpload =>
      \A id \in DOMAIN uploaded_files \ {resp'.file_id} :
        id \in DOMAIN uploaded_files' /\ uploaded_files'[id] = uploaded_files[id]

\* C35: every successful upload registers its volume under a file id that
\* was not in use, and keeps every registered entry (raw data, owner,
\* stored normalization state) as it was, also when one user uploads the
\* same file name twice within a second.
C35_UploadsNeverReplace == [][RegistersFreshId]_vars

\* entries under ids other than the uploaded one are kept
C35_OtherEntriesKept == [][KeepsOtherIds]_vars

(***************************************************************************)
(* Approval, rejection and the trial counter                               *)
(***************************************************************************)
Approvable == {"trial", "pending", "suspended"}

\* a successful approve finds an approvable user and leaves it approved
ApproveGuarded ==
    (RequestStep("approve") /\ resp'.status = 200) =>
      /\ users[served'.user_id].role = "admin"
      /\ users[served'.target].status \in Approvable
      /\ users'[served'.target].status = "approved"

\* an approve of a user who is approved or rejected is refused
ApproveRefused ==
    (RequestStep("approve") /\ users[served'.target].status \notin Approvable) =>
      resp'.status # 200 /\ users' = users

RejectedStays(u) == users[u].status = "rejected" => users'[u].status = "rejected"

ApprovedUntilRejected(u) ==
    (users[u].status = "approved" /\ users'[u].status # "approved") =>
      /\ RequestStep("reject") /\ resp'.status = 200
      /\ served'.target = u
      /\ users[served'.user_id].role = "admin"
      /\ users'[u].status = "rejected"

StatusRules == ApproveGuarded /\ ApproveRefused /\ \A u \in AccountUserIds : RejectedStays(u) /\ ApprovedUntilRejected(u)

\* C36: an admin approve succeeds only for a user whose status is trial,
\* pending or suspended and sets it to approved; a rejected user stays
\* rejected through every login, upload, request-approval, approve and
\* reject; an approved user's status changes only through an admin reject.
C36_ApproveAndRejectRules == [][StatusRules]_vars

\* the approve of a rejected doctor has just been refused, after the trial
\* of that doctor ran out and while the colleague is approved
C36_Witness ==
    /\ served = account_request("approve", AdminId, DoctorId)
    /\ resp = [op |-> "approve", status |-> 400]
    /\ users[DoctorId].status = "rejected"
    /\ users[ColleagueId].status = "approved"
    /\ now = MaxTime

TrialBelowLimit == \A u \in AccountUserIds : users[u].status = "trial" => users[u].trial_uploads_count < TrialMaxUploads

\* the counter of user u over one step
CounterStep(u) ==
    /\ users'[u].trial_uploads_count >= users[u].trial_uploads_count
    /\ users'[u].trial_uploads_count # users[u].trial_uploads_count =>
         /\ users'[u].trial_uploads_count = users[u].trial_uploads_count + 1
         /\ RequestStep("upload") /\ served'.user_id = u /\ resp'.status = 200
         /\ users[u].status = "trial"
         /\ (users'[u].trial_uploads_count = TrialMaxUploads) => users'[u].status = "pending"

\* a successful upload by a user on trial counts
TrialUploadCounts(u) ==
    (RequestStep("upload") /\ served'.user_id = u /\ resp'.status = 200 /\ users[u].status = "trial") =>
      users'[u].trial_uploads_count = users[u].trial_uploads_count + 1

\* C37: with requests processed one at a time, a user on trial has fewer
\* uploads counted than the maximum; the counter never decreases, grows by
\* exactly one and only on an upload made while the user is on trial, and
\* the upload that brings it to the maximum moves the user to pending.
C37_TrialCounter == []TrialBelowLimit /\ [][\A u \in AccountUserIds : CounterStep(u) /\ TrialUploadCounts(u)]_vars

\* the colleague's second upload has just been counted and left the
\* colleague pending
C37_Witness ==
    /\ served = account_request("upload", ColleagueId, ColleagueId)
    /\ resp.op = "upload" /\ resp.status = 200
    /\ users[ColleagueId].trial_uploads_count = TrialMaxUploads
    /\ users[ColleagueId].status = "pending"

(***************************************************************************)
(* Replies and the files of other users                                    *)
(***************************************************************************)
\* a request of a viewer, answered in this step
ViewStep == served'.op \in {"analysis", "stats"} /\ served'.user_id \in Viewers /\ earlier' \in view_remembered(served', OwnFiles(served'.user_id), resp')

\* the same request by the same user, whose own files are as they were
SeenBefore == earlier.op = "view" /\ earlier.request = served' /\ earlier.own = OwnFiles(served'.user_id)

SameReplyAsBefore == (ViewStep /\ SeenBefore) => resp' = earlier.reply

ForeignIds(user_id) == {id \in DOMAIN uploaded_files : uploaded_files[id].user_id # user_id}

\* the file ids a reply carries
IdsIn(reply) ==
    IF reply.op = "analysis" /\ reply.status = 404 THEN reply.available_files
    ELSE IF reply.op = "analysis" /\ reply.status = 200 THEN {reply.file_info.file_id}
    ELSE {}

NoForeignIds == ViewStep => IdsIn(resp') \cap ForeignIds(served'.user_id) = {}

\* C38: the replies a non-admin user receives do not depend on the files of
\* other users: the same request, sent while the user's own files are the
\* same, gets the same reply whatever the others have registered (also for
\* a file id that is not registered), and no reply carries the file id of
\* another user's file.
C38_RepliesIndependentOfOthers == [][SameReplyAsBefore /\ NoForeignIds]_vars

\* the analysis of a file the user owns does not depend on the other files
OwnFileSameReply ==
    (ViewStep /\ SeenBefore /\ served'.op = "analysis" /\ served'.file_id \in DOMAIN OwnFiles(served'.user_id)) =>
      resp' = earlier.reply

C38_OwnFileRepliesIndependent == [][OwnFileSameReply]_vars

\* the doctor asked for the analysis of an unregistered id and was told the
\* id of the administrator's file
ForeignIdListed ==
    /\ served.op = "analysis" /\ served.user_id = DoctorId
    /\ resp.op = "analysis" /\ resp.status = 404
    /\ file_name(AdminId, 0, "scan.nii") \in resp.available_files

====
